---- MODULE Spec2Model ----
(***************************************************************************)
(* Model of the EPLC assistant back end (backend_api.py): start-up of the  *)
(* Q&A stores, exact and semantic retrieval over the EPLC and HHS stores,  *)
(* and the question-answering cascade (refusal / context-bound answer /    *)
(* general-knowledge fallback).                                            *)
(*                                                                         *)
(* Texts are sequences of one-character strings, so that strip(), lower()  *)
(* and string equality are computed character by character.  Distances and *)
(* similarities are integers in hundredths (0.75 is 75).                   *)
(***************************************************************************)
EXTENDS Integers, Sequences, FiniteSets, TLC

\* ------------------------------------------------------------------ bounds
\* largest value of TOP_K and of an explicit k argument
MaxK == 2
\* number of fragments held by each Q&A store
MaxFrags == 2

\* ------------------------------------------------------------------- texts
REFUSAL == <<"N", "o", "t", " ", "s", "p", "e", "c", "i", "f", "i", "e", "d", " ", "i", "n", " ", "t", "h", "e", " ", "p", "r", "o", "v", "i", "d", "e", "d", " ", "c", "o", "n", "t", "e", "x", "t", ".">>

REFUSAL_LOWER == <<"n", "o", "t", " ", "s", "p", "e", "c", "i", "f", "i", "e", "d", " ", "i", "n", " ", "t", "h", "e", " ", "p", "r", "o", "v", "i", "d", "e", "d", " ", "c", "o", "n", "t", "e", "x", "t", ".">>

OPENAI_ERROR_PREFIX == <<"[", "o", "p", "e", "n", "a", "i", " ", "e", "r", "r", "o", "r", "]", " ">>

\* texts a chat completion can carry as message.content
T_Upper == <<"N", "O", "T", " ", "S", "P", "E", "C", "I", "F", "I", "E", "D", " ", "I", "N", " ", "T", "H", "E", " ", "P", "R", "O", "V", "I", "D", "E", "D", " ", "C", "O", "N", "T", "E", "X", "T", ".">>

T_Padded == <<" ", "N", "o", "t", " ", "s", "p", "e", "c", "i", "f", "i", "e", "d", " ", "i", "n", " ", "t", "h", "e", " ", "p", "r", "o", "v", "i", "d", "e", "d", " ", "c", "o", "n", "t", "e", "x", "t", ".", "\n">>

T_NoDot == <<"N", "o", "t", " ", "s", "p", "e", "c", "i", "f", "i", "e", "d", " ", "i", "n", " ", "t", "h", "e", " ", "p", "r", "o", "v", "i", "d", "e", "d", " ", "c", "o", "n", "t", "e", "x", "t">>

T_Answer == <<"U", "s", "e", " ", "E", "P", "L", "C", ".">>

\* message of an exception raised by the OpenAI client
E_Timeout == <<"t", "i", "m", "e", "o", "u", "t">>

\* message of an exception raised while opening a phase store
E_Client == <<"c", "h", "r", "o", "m", "a">>

\* Python None where a text is expected (no text contains this element)
NoneText == <<"<None>">>

Upper == <<"A", "B", "C", "D", "E", "F", "G", "H", "I", "J", "K", "L", "M", "N", "O", "P", "Q", "R", "S", "T", "U", "V", "W", "X", "Y", "Z">>

Lower == <<"a", "b", "c", "d", "e", "f", "g", "h", "i", "j", "k", "l", "m", "n", "o", "p", "q", "r", "s", "t", "u", "v", "w", "x", "y", "z">>

Whitespace == {" ", "\n", "\t"}

\* str.lower() on one character
lower_char(c) ==
  IF \E i \in 1..26 : Upper[i] = c
    THEN Lower[CHOOSE i \in 1..26 : Upper[i] = c]
    ELSE c

\* str.lower()
str_lower(s) == [i \in 1..Len(s) |-> lower_char(s[i])]

RECURSIVE lstrip(_)
lstrip(s) == IF s # <<>> /\ Head(s) \in Whitespace THEN lstrip(Tail(s)) ELSE s

RECURSIVE rstrip(_)
rstrip(s) ==
  IF s # <<>> /\ s[Len(s)] \in Whitespace
    THEN rstrip(SubSeq(s, 1, Len(s) - 1))
    ELSE s

\* str.strip()
str_strip(s) == rstrip(lstrip(s))

\* ----------------------------------------------------------- list helpers
Min(a, b) == IF a < b THEN a ELSE b

\* Python slice xs[:k] for k >= 0
Take(xs, k) == SubSeq(xs, 1, Min(Len(xs), k))

\* Python zip over three lists: stops at the shortest
Zip3(a, b, c) ==
  [i \in 1..Min(Len(a), Min(Len(b), Len(c))) |-> <<a[i], b[i], c[i]>>]

\* insert x after every element whose key is <= the key of x
RECURSIVE InsertByDist(_, _)
InsertByDist(sorted, x) ==
  IF sorted = <<>> THEN <<x>>
  ELSE IF Head(sorted)[3] <= x[3]
         THEN <<Head(sorted)>> \o InsertByDist(Tail(sorted), x)
         ELSE <<x>> \o sorted

\* SortByDist leaving the list in store order
SortByDist_mut(xs) == xs

\* list.sort(key=lambda x: x[2]) : stable, ascending by distance
RECURSIVE SortByDist(_)
SortByDist(xs) ==
  IF xs = <<>> THEN <<>>
  ELSE InsertByDist(SortByDist(SubSeq(xs, 1, Len(xs) - 1)), xs[Len(xs)])

\* ----------------------------------------------------------- configuration
\* SIM_FILTER default "0.45"
SIM_FILTER == 45
\* MIN_SIM default "0.35"
MIN_SIM == 35
\* SEM_THRESHOLD default "0.75"
SEM_THRESHOLD == 75

\* ------------------------------------------------- the stores (environment)
Digits == <<"1", "2", "3", "4", "5", "6", "7", "8", "9">>

\* ids of the fragments of a Q&A store, in the store's own order
FragIds(store) == [i \in 1..MaxFrags |-> <<store, i>>]

\* text of a fragment
DocOf(id) == <<(IF id[1] = "eplc" THEN "E" ELSE "H"), Digits[id[2]]>>

\* distances a vector lookup of a Q&A store can report: below the cutoff and
\* at the cutoff
QaDists == {10, 75}

RECURSIVE SeqOfSet(_)
SeqOfSet(S) ==
  IF S = {} THEN <<>>
  ELSE LET m == CHOOSE x \in S : \A y \in S : x <= y
       IN <<m>> \o SeqOfSet(S \ {m})

NotCalled == [called |-> FALSE]

Raised == [called |-> TRUE, raises |-> TRUE]

\* what coll.get(where_document={"$contains": substring}, limit=k) can do:
\* raise, or return at most k of the store's fragments in store order (the
\* ids being labels, the matching fragments are taken to be the first n).
\* limit=0 is not a limit the store is known to honour: it may return any
\* number of its fragments.
GetOutcomes(store, k) ==
  {Raised} \cup
  { [called |-> TRUE, raises |-> FALSE,
     ids |-> [i \in 1..n |-> FragIds(store)[i]],
     documents |-> [i \in 1..n |-> DocOf(FragIds(store)[i])]]
    : n \in 0..(IF k = 0 THEN MaxFrags ELSE Min(k, MaxFrags)) }

IsAscending(ds) == \A i \in 1..(Len(ds) - 1) : ds[i] <= ds[i + 1]

\* what coll.query(query_embeddings=qv, n_results=k) can do: raise, or return
\* at most k fragments in ascending distance
QueryOutcomes(store, k) ==
  {Raised} \cup
  { [called |-> TRUE, raises |-> FALSE,
     ids |-> [i \in 1..Len(ds) |-> FragIds(store)[i]],
     documents |-> [i \in 1..Len(ds) |-> DocOf(FragIds(store)[i])],
     distances |-> ds]
    : ds \in { d \in UNION { [1..n -> QaDists] : n \in 0..Min(k, MaxFrags) } :
               IsAscending(d) } }

\* what sbert.encode can do
EncodeOutcomes == {Raised, [called |-> TRUE, raises |-> FALSE]}

\* what a chat completion can do: raise, or return message.content
LlmContents == {REFUSAL, T_Upper, T_Padded, T_NoDot, T_Answer}

LlmOutcomes ==
  {[called |-> TRUE, raises |-> TRUE, error |-> E_Timeout]} \cup
  {[called |-> TRUE, raises |-> FALSE, content |-> c] : c \in LlmContents}

\* --------------------------------------------------------------- retrieval
EmptyResult == [ids |-> <<>>, docs |-> <<>>, dists |-> <<>>]

\* exact_step with a raised lookup discarding what was gathered so far
exact_step_mut(acc, coll, r) ==
  IF coll = "None" THEN acc
  ELSE IF r.raises THEN [ids |-> <<>>, docs |-> <<>>]
  ELSE [ids |-> acc.ids \o r.ids, docs |-> acc.docs \o r.documents]

\* one iteration of `for coll in (self.coll_eplc, self.coll_hhs)`
exact_step(acc, coll, r) ==
  IF coll = "None" THEN acc
  ELSE IF r.raises THEN acc
  ELSE [ids |-> acc.ids \o r.ids, docs |-> acc.docs \o r.documents]

\* exact_scores with one score per gathered document, whatever k
exact_scores_mut(docs, k) == [i \in 1..Len(docs) |-> 0]

\* [0.0] * min(len(docs), k)
exact_scores(docs, k) == [i \in 1..Min(Len(docs), k) |-> 0]

\* retrieve_exact keeping the k matches of each store (no truncation of the
\* concatenation)
retrieve_exact_mut(ce, ch, rE, rH, k) ==
  LET a0 == [ids |-> <<>>, docs |-> <<>>]
      a1 == exact_step(a0, ce, [rE EXCEPT !.ids = Take(@, k), !.documents = Take(@, k)])
      a2 == exact_step(a1, ch, [rH EXCEPT !.ids = Take(@, k), !.documents = Take(@, k)])
  IN [ids |-> a2.ids,
      docs |-> a2.docs,
      dists |-> [i \in 1..Len(a2.docs) |-> 0]]

retrieve_exact(ce, ch, rE, rH, k) ==
  LET a0 == [ids |-> <<>>, docs |-> <<>>]
      a1 == exact_step(a0, ce, rE)
      a2 == exact_step(a1, ch, rH)
  IN [ids |-> Take(a2.ids, k),
      docs |-> Take(a2.docs, k),
      dists |-> exact_scores(a2.docs, k)]

\* semantic_step pairing every id and distance with the first document
semantic_step_mut(combined, coll, r) ==
  IF coll = "None" THEN combined
  ELSE IF r.raises THEN combined
  ELSE combined
       \o Zip3(r.ids, [i \in 1..Len(r.documents) |-> r.documents[1]],
               r.distances)

\* one `if coll is not None: try: ... except` block of retrieve_semantic
semantic_step(combined, coll, r) ==
  IF coll = "None" THEN combined
  ELSE IF r.raises THEN combined
  ELSE combined \o Zip3(r.ids, r.documents, r.distances)

retrieve_semantic(sb, enc, ce, ch, rE, rH, k) ==
  IF sb = "None" THEN EmptyResult
  ELSE IF enc.raises THEN EmptyResult
  ELSE LET c1 == semantic_step(<<>>, ce, rE)
           c2 == semantic_step(c1, ch, rH)
           combined == Take(SortByDist(c2), k)
       IN [ids |-> [i \in 1..Len(combined) |-> combined[i][1]],
           docs |-> [i \in 1..Len(combined) |-> combined[i][2]],
           dists |-> [i \in 1..Len(combined) |-> combined[i][3]]]

\* ------------------------------------------------------- more text literals
SEP == <<"\n", "\n", "-", "-", "-", "\n", "\n">>

NO_STRONG_MATCHES == <<"(", "n", "o", " ", "s", "t", "r", "o", "n", "g", " ", "m", "a", "t", "c", "h", "e", "s", ")">>

P_Context == <<"C", "O", "N", "T", "E", "X", "T", ":", "\n">>

P_Question == <<"\n", "\n", "Q", "U", "E", "S", "T", "I", "O", "N", ":", "\n">>

P_Newline == <<"\n">>

P_PleaseAnswer == <<"\n", "\n", "P", "l", "e", "a", "s", "e", " ", "p", "r", "o", "v", "i", "d", "e", " ", "a", " ", "c", "l", "e", "a", "r", " ", "a", "n", "d", " ", "h", "e", "l", "p", "f", "u", "l", " ", "a", "n", "s", "w", "e", "r", " ", "b", "a", "s", "e", "d", " ", "o", "n", " ", "t", "h", "e", " ", "c", "o", "n", "t", "e", "x", "t", " ", "a", "b", "o", "v", "e", ".", "\n">>

E_NoFolderPre == <<"D", "a", "t", "a", "b", "a", "s", "e", " ", "f", "o", "l", "d", "e", "r", " ", "f", "o", "r", " ", "p", "h", "a", "s", "e", " ", "'">>

E_NoFolderPost == <<"'", " ", "n", "o", "t", " ", "f", "o", "u", "n", "d">>

E_NoCollections == <<"N", "o", " ", "c", "o", "l", "l", "e", "c", "t", "i", "o", "n", "s", " ", "f", "o", "u", "n", "d", " ", "i", "n", " ", "d", "a", "t", "a", "b", "a", "s", "e">>

PH_requirement == <<"r", "e", "q", "u", "i", "r", "e", "m", "e", "n", "t">>

PH_design == <<"d", "e", "s", "i", "g", "n">>

PH_implementation == <<"i", "m", "p", "l", "e", "m", "e", "n", "t", "a", "t", "i", "o", "n">>

PH_development == <<"d", "e", "v", "e", "l", "o", "p", "m", "e", "n", "t">>

PH_DesignArg == <<"D", "e", "s", "i", "g", "n">>

Q1 == <<"q", "1", "?">>


P_SpContext == <<"\n", "C", "O", "N", "T", "E", "X", "T", ":", "\n">>

\* keys of self.PHASE_PATHS
PHASE_PATHS == {PH_requirement, PH_design, PH_implementation, PH_development}

\* questions asked
Questions == {Q1}

\* (phase, use_dual_retrieval) arguments of answer_question: the callers'
\* answer_question(q, use_dual_retrieval=True), and the single phase forms
CallShapes == {<<NoneText, TRUE>>, <<NoneText, FALSE>>, <<PH_DesignArg, FALSE>>}

\* --------------------------------------------------------- drafting helpers
\* Python values a distance can be: a float (value in hundredths), None, a
\* text, a list
PyFloat(v) == [type |-> "float", value |-> v]

PyNone == [type |-> "NoneType"]

PyStr(s) == [type |-> "str", text |-> s]

\* float(text) for the plain decimal forms "12", "0.5", ".5", "1.": surrounding
\* whitespace is ignored, anything else is a ValueError; hundredths, so
\* decimals after the second are cut
float_of_str(s) ==
  LET DecimalDigits == <<"0", "1", "2", "3", "4", "5", "6", "7", "8", "9">>
      all_digits(x) ==
        \A i \in 1..Len(x) : \E j \in 1..10 : DecimalDigits[j] = x[i]
      \* the number a text of decimal digits writes (0 for the empty text)
      RECURSIVE digits_value(_)
      digits_value(x) ==
        IF x = <<>> THEN 0
        ELSE 10 * digits_value(SubSeq(x, 1, Len(x) - 1))
             + ((CHOOSE j \in 1..10 : DecimalDigits[j] = x[Len(x)]) - 1)
      t == str_strip(s)
      dots == {i \in 1..Len(t) : t[i] = "."}
      dot == IF dots = {} THEN Len(t) + 1
             ELSE CHOOSE i \in dots : \A j \in dots : i <= j
      ip == SubSeq(t, 1, dot - 1)
      fp == SubSeq(t, dot + 1, Len(t))
      f2 == SubSeq(fp \o <<"0", "0">>, 1, 2)
  IN IF all_digits(ip) /\ all_digits(fp) /\ (ip # <<>> \/ fp # <<>>)
       THEN [ok |-> TRUE, value |-> 100 * digits_value(ip) + digits_value(f2)]
       ELSE [ok |-> FALSE]

\* float(d): the value, or ok = FALSE where Python raises TypeError or
\* ValueError
py_float(d) ==
  IF d.type = "float" THEN [ok |-> TRUE, value |-> d.value]
  ELSE IF d.type = "str" THEN float_of_str(d.text)
  ELSE [ok |-> FALSE]

\* dist_to_sim with the handler's value subtracted instead of returned
dist_to_sim_mut(d) == 100 - (IF py_float(d).ok THEN py_float(d).value ELSE 0)

\* try: 1.0 - float(d)  except: 0.0   (hundredths)
dist_to_sim(d) == IF py_float(d).ok THEN 100 - py_float(d).value ELSE 0

\* filter_by_threshold keeping only what is strictly above the threshold
RECURSIVE filter_by_threshold_mut(_, _)
filter_by_threshold_mut(docs, dists) ==
  IF docs = <<>> \/ dists = <<>> THEN <<>>
  ELSE (IF dist_to_sim(Head(dists)) > SIM_FILTER THEN <<Head(docs)>> ELSE <<>>)
       \o filter_by_threshold_mut(Tail(docs), Tail(dists))

\* [d for d, dist in zip(docs, dists) if dist_to_sim(dist) >= sim_filter]
RECURSIVE filter_by_threshold(_, _)
filter_by_threshold(docs, dists) ==
  IF docs = <<>> \/ dists = <<>> THEN <<>>
  ELSE (IF dist_to_sim(Head(dists)) >= SIM_FILTER THEN <<Head(docs)>> ELSE <<>>)
       \o filter_by_threshold(Tail(docs), Tail(dists))

\* sep.join(docs)
RECURSIVE str_join(_, _)
str_join(sep, docs) ==
  IF docs = <<>> THEN <<>>
  ELSE IF Len(docs) = 1 THEN docs[1]
  ELSE docs[1] \o sep \o str_join(sep, Tail(docs))

\* join_context without the sentinel for an empty list
join_context_mut(docs) == str_join(SEP, docs)

join_context(docs) == IF docs # <<>> THEN str_join(SEP, docs) ELSE NO_STRONG_MATCHES

\* ------------------------------------------------------------ chat helpers
make_prompt(question, docs) ==
  P_Context \o str_join(SEP, docs) \o P_Question \o question \o P_Newline

\* the text ask_openai returns for the outcome `out` of its completion call
ask_openai(out) ==
  IF out.raises THEN OPENAI_ERROR_PREFIX \o out.error
  ELSE str_strip(out.content)

\* the record of one completion call
LlmCall(system, user, temperature, out) ==
  [system |-> system, user |-> user, temperature |-> temperature, out |-> out]

\* ------------------------------------------------------ Q&A: dual retrieval
\* SemValid keeping the hits at the cutoff as well
SemValid_mut(sem) == {i \in 1..Len(sem.ids) : sem.dists[i] <= SEM_THRESHOLD}

\* semantic hits kept by `if dist < self.sem_threshold`
SemValid(sem) == {i \in 1..Len(sem.ids) : sem.dists[i] < SEM_THRESHOLD}

SelectIdx(xs, keep) == [j \in 1..Len(SeqOfSet(keep)) |-> xs[SeqOfSet(keep)[j]]]

\* is_refusal comparing the answer with the sentinel as written
is_refusal_mut(answer) == answer = REFUSAL

\* Step 7: `answer.strip().lower() == "not specified in the provided context."`
is_refusal(answer) == str_lower(str_strip(answer)) = REFUSAL_LOWER

Ok(answer, citations) ==
  [success |-> TRUE, answer |-> answer, error |-> NoneText,
   citations |-> citations]

Failed(error) ==
  [success |-> FALSE, answer |-> NoneText, error |-> error, citations |-> <<>>]

\* DualLocals combining the semantic hits only
DualLocals_mut(sb, ce, ch, k, io) ==
  LET exact == retrieve_exact(ce, ch, io.getE, io.getH, k)
      sem == retrieve_semantic(sb, io.enc, ce, ch, io.qryE, io.qryH, k)
      keep == SemValid(sem)
  IN [exact |-> exact, sem |-> sem,
      combined_ids |-> SelectIdx(sem.ids, keep),
      combined_docs |-> SelectIdx(sem.docs, keep)]

\* locals of _answer_with_dual_retrieval after Step 4
DualLocals(sb, ce, ch, k, io) ==
  LET exact == retrieve_exact(ce, ch, io.getE, io.getH, k)
      sem == retrieve_semantic(sb, io.enc, ce, ch, io.qryE, io.qryH, k)
      keep == SemValid(sem)
  IN [exact |-> exact, sem |-> sem,
      combined_ids |-> exact.ids \o SelectIdx(sem.ids, keep),
      combined_docs |-> exact.docs \o SelectIdx(sem.docs, keep)]

\* has_context with the unfiltered semantic hits counted as context
has_context_mut(loc) == loc.exact.docs # <<>> \/ loc.sem.docs # <<>>

\* does Step 5 pass (some context) ?
has_context(loc) == loc.combined_docs # <<>>

\* answer_with_dual_retrieval citing nothing when the answer is the fallback's
answer_with_dual_retrieval_mut(question, loc, llm1, llm2) ==
  IF ~has_context(loc)
    THEN [result |-> Ok(REFUSAL, <<>>), llm |-> <<>>]
  ELSE LET prompt == make_prompt(question, loc.combined_docs)
           answer == ask_openai(llm1)
           c1 == LlmCall("SYSTEM_PROMPT", prompt, 0, llm1)
       IN IF is_refusal(answer)
            THEN [result |-> Ok(ask_openai(llm2), <<>>),
                  llm |-> <<c1, LlmCall("FALLBACK_PROMPT", question, 0, llm2)>>]
            ELSE [result |-> Ok(answer, loc.combined_ids), llm |-> <<c1>>]

\* result and completion calls of _answer_with_dual_retrieval, given its
\* locals after Step 4 and the outcomes of the completion calls it makes
answer_with_dual_retrieval(question, loc, llm1, llm2) ==
  IF ~has_context(loc)
    THEN [result |-> Ok(REFUSAL, <<>>), llm |-> <<>>]
  ELSE LET prompt == make_prompt(question, loc.combined_docs)
           answer == ask_openai(llm1)
           c1 == LlmCall("SYSTEM_PROMPT", prompt, 0, llm1)
       IN IF is_refusal(answer)
            THEN [result |-> Ok(ask_openai(llm2), loc.combined_ids),
                  llm |-> <<c1, LlmCall("FALLBACK_PROMPT", question, 0, llm2)>>]
            ELSE [result |-> Ok(answer, loc.combined_ids), llm |-> <<c1>>]

\* --------------------------------------------------- Q&A: single phase path
\* distances a phase store can report: similarity above, at and below
\* SIM_FILTER
PhaseDists == {10, 55, 90}

PhaseDoc(i) == <<"P", Digits[i]>>

\* what os.path.exists / PersistentClient / list_collections can find for a
\* phase store
PhaseDbStates == {"missing", "raises", "empty", "ok"}

\* what embed_1024 (the OpenAI embeddings call) can do
EmbedOutcomes == {Raised, [called |-> TRUE, raises |-> FALSE]}

\* what collection.query(n_results=self.top_k) can do on a phase store
PhaseQueryOutcomes(k) ==
  {Raised} \cup
  { [called |-> TRUE, raises |-> FALSE,
     documents |-> [i \in 1..Len(ds) |-> PhaseDoc(i)],
     distances |-> [i \in 1..Len(ds) |-> PyFloat(ds[i])]]
    : ds \in { d \in UNION { [1..n -> PhaseDists] : n \in 0..Min(k, MaxFrags) } :
               IsAscending(d) } }

\* (docs, dists) returned by query_database
query_database(emb, qry) ==
  IF emb.raises THEN [docs |-> <<>>, dists |-> <<>>]
  ELSE IF qry.raises THEN [docs |-> <<>>, dists |-> <<>>]
  ELSE [docs |-> qry.documents, dists |-> qry.distances]

\* the phase key _answer_single_phase works on
single_phase_key(phase) ==
  IF str_lower(phase) \notin PHASE_PATHS THEN PH_implementation
  ELSE str_lower(phase)

\* user prompt of _answer_single_phase
single_phase_prompt(question, context) ==
  P_SpContext \o context \o P_Question \o question \o P_PleaseAnswer

\* result and completion calls of _answer_single_phase
answer_single_phase(question, phase, pio, chat) ==
  LET ph == single_phase_key(phase)
  IN IF pio.db = "missing"
       THEN [result |-> Failed(E_NoFolderPre \o ph \o E_NoFolderPost), llm |-> <<>>]
     ELSE IF pio.db = "raises"
       THEN [result |-> Failed(E_Client), llm |-> <<>>]
     ELSE IF pio.db = "empty"
       THEN [result |-> Failed(E_NoCollections), llm |-> <<>>]
     ELSE LET q == query_database(pio.embed, pio.query)
              kept == filter_by_threshold(q.docs, q.dists)
              context == join_context(kept)
              c == LlmCall("SINGLE_PHASE_SYSTEM",
                           single_phase_prompt(question, context), 20, chat)
          IN IF chat.raises
               THEN [result |-> Failed(chat.error), llm |-> <<c>>]
               ELSE [result |-> Ok(str_strip(chat.content), <<>>), llm |-> <<c>>]

\* answer_mode without the test that a Q&A store is connected
answer_mode_mut(use_dual_retrieval, ce, ch, phase) ==
  IF use_dual_retrieval THEN "dual"
  ELSE IF phase # NoneText THEN "phase"
  ELSE "implementation"

\* which branch of answer_question runs
answer_mode(use_dual_retrieval, ce, ch, phase) ==
  IF use_dual_retrieval /\ (ce # "None" \/ ch # "None") THEN "dual"
  ELSE IF phase # NoneText THEN "phase"
  ELSE "implementation"

\* ----------------------------------------------------------------- start-up
\* what start-up can find at a Q&A store path: no folder, a folder whose
\* client raises, a folder without collections, a usable store
StorePathStates == {"missing", "raises", "empty", "ok"}

Envs ==
  [apiKey : BOOLEAN, sbertLoads : BOOLEAN,
   eplc : StorePathStates, hhs : StorePathStates, topK : 0..MaxK]

\* (coll_eplc, coll_hhs) after _init_qa_databases: one try block around both
\* connections, whose handler sets both to None
init_qa_databases(e) ==
  IF e.eplc \in {"raises", "empty"} THEN [coll_eplc |-> "None", coll_hhs |-> "None"]
  ELSE IF e.hhs \in {"raises", "empty"} THEN [coll_eplc |-> "None", coll_hhs |-> "None"]
  ELSE [coll_eplc |-> IF e.eplc = "ok" THEN "conn" ELSE "None",
        coll_hhs |-> IF e.hhs = "ok" THEN "conn" ELSE "None"]

\* -------------------------------------------------------------------- state
VARIABLES
  pc,         \* "start", "input" (waiting for a call), "print" (a call returned), "fatal"
  env,        \* what start-up finds: credential, encoder, store paths, TOP_K
  sbert,      \* self.sbert: "loaded" or "None" ("unset" before construction)
  coll_eplc,  \* self.coll_eplc: "conn" or "None"
  coll_hhs,   \* self.coll_hhs: "conn" or "None"
  top_k,      \* self.top_k
  call,       \* the call that returned: arguments, outcomes of the lookups, locals
  result,     \* its return value
  llm_calls,  \* the chat completions it made, in order
  cli,        \* Generation_final_v2.main: position, locals, what the last turn did
  app,        \* ibm_app: st.session_state of the create-document pages, last click
  fn,         \* a helper applied on its own: arguments and return value
  runs        \* calls in flight on the shared back end, one per script run

vars == <<pc, env, sbert, coll_eplc, coll_hhs, top_k, call, result, llm_calls,
          cli, app, fn, runs>>

\* the state of the drafting front ends and of the concurrent script runs,
\* which the back end called on its own never touches
drafting == <<cli, app, fn, runs>>

backend == <<sbert, coll_eplc, coll_hhs, top_k>>

NoCall == [op |-> "none"]

Init ==
  /\ pc = "start"
  /\ env \in Envs
  /\ sbert = "unset"
  /\ coll_eplc = "unset"
  /\ coll_hhs = "unset"
  /\ top_k = 0
  /\ call = NoCall
  /\ result = NoCall
  /\ llm_calls = <<>>
  /\ cli = NoCall
  /\ app = NoCall
  /\ fn = NoCall
  /\ runs = NoCall

\* EPLCBackend.__init__
Construct ==
  /\ pc = "start"
  /\ IF ~env.apiKey
       THEN /\ pc' = "fatal"
            /\ UNCHANGED backend
       ELSE /\ pc' = "input"
            /\ top_k' = env.topK
            /\ sbert' = (IF env.sbertLoads THEN "loaded" ELSE "None")
            /\ coll_eplc' = init_qa_databases(env).coll_eplc
            /\ coll_hhs' = init_qa_databases(env).coll_hhs
  /\ UNCHANGED <<env, call, result, llm_calls, drafting>>

\* the lookups a call makes, by the state of the back end
GetChoices(coll, store, k) ==
  IF coll = "None" THEN {NotCalled} ELSE GetOutcomes(store, k)

EncodeChoices(sb) == IF sb = "None" THEN {NotCalled} ELSE EncodeOutcomes

QueryChoices(sb, enc, coll, store, k) ==
  IF sb = "None" \/ enc.raises \/ coll = "None" THEN {NotCalled}
  ELSE QueryOutcomes(store, k)

\* retrieve_exact called directly with k
CallRetrieveExact ==
  /\ pc = "input"
  /\ \E k \in 0..MaxK :
       \E getE \in GetChoices(coll_eplc, "eplc", k),
          getH \in GetChoices(coll_hhs, "hhs", k) :
         /\ call' = [op |-> "retrieve_exact", k |-> k,
                     io |-> [getE |-> getE, getH |-> getH]]
         /\ result' = retrieve_exact(coll_eplc, coll_hhs, getE, getH, k)
  /\ pc' = "print"
  /\ UNCHANGED <<env, backend, llm_calls, drafting>>

\* retrieve_semantic called directly with k
CallRetrieveSemantic ==
  /\ pc = "input"
  /\ \E k \in 0..MaxK :
       \E enc \in EncodeChoices(sbert) :
         \E qryE \in QueryChoices(sbert, enc, coll_eplc, "eplc", k),
            qryH \in QueryChoices(sbert, enc, coll_hhs, "hhs", k) :
           /\ call' = [op |-> "retrieve_semantic", k |-> k,
                       io |-> [enc |-> enc, qryE |-> qryE, qryH |-> qryH]]
           /\ result' = retrieve_semantic(sbert, enc, coll_eplc, coll_hhs,
                                          qryE, qryH, k)
  /\ pc' = "print"
  /\ UNCHANGED <<env, backend, llm_calls, drafting>>

\* answer_question, dual retrieval branch
AnswerDual(question, phase) ==
  \E getE \in GetChoices(coll_eplc, "eplc", top_k),
     getH \in GetChoices(coll_hhs, "hhs", top_k),
     enc \in EncodeChoices(sbert) :
    \E qryE \in QueryChoices(sbert, enc, coll_eplc, "eplc", top_k),
       qryH \in QueryChoices(sbert, enc, coll_hhs, "hhs", top_k) :
      LET io == [getE |-> getE, getH |-> getH, enc |-> enc,
                 qryE |-> qryE, qryH |-> qryH]
          loc == DualLocals(sbert, coll_eplc, coll_hhs, top_k, io)
      IN \E llm1 \in (IF has_context(loc) THEN LlmOutcomes ELSE {NotCalled}) :
           \E llm2 \in (IF has_context(loc) /\ is_refusal(ask_openai(llm1))
                          THEN LlmOutcomes ELSE {NotCalled}) :
             LET r == answer_with_dual_retrieval(question, loc, llm1, llm2)
             IN /\ call' = [op |-> "answer_question", question |-> question,
                            phase |-> phase, use_dual_retrieval |-> TRUE,
                            mode |-> "dual", io |-> io, loc |-> loc]
                /\ result' = r.result
                /\ llm_calls' = r.llm

\* answer_question, single phase branches
AnswerSingle(question, phase, use_dual) ==
  \E db \in PhaseDbStates :
    \E emb \in (IF db = "ok" THEN EmbedOutcomes ELSE {NotCalled}) :
      \E qry \in (IF db = "ok" /\ ~emb.raises
                    THEN PhaseQueryOutcomes(top_k) ELSE {NotCalled}),
         chat \in (IF db = "ok" THEN LlmOutcomes ELSE {NotCalled}) :
        LET pio == [db |-> db, embed |-> emb, query |-> qry]
            mode == answer_mode(use_dual, coll_eplc, coll_hhs, phase)
            r == answer_single_phase(
                   question,
                   IF mode = "phase" THEN phase ELSE PH_implementation,
                   pio, chat)
        IN /\ call' = [op |-> "answer_question", question |-> question,
                       phase |-> phase, use_dual_retrieval |-> use_dual,
                       mode |-> mode, io |-> pio]
           /\ result' = r.result
           /\ llm_calls' = r.llm

\* EPLCBackend.answer_question
AnswerQuestion ==
  /\ pc = "input"
  /\ \E question \in Questions, shape \in CallShapes :
       IF answer_mode(shape[2], coll_eplc, coll_hhs, shape[1]) = "dual"
         THEN AnswerDual(question, shape[1])
         ELSE AnswerSingle(question, shape[1], shape[2])
  /\ pc' = "print"
  /\ UNCHANGED <<env, backend, drafting>>

\* the caller shows the result and waits for the next input
PrintResult ==
  /\ pc = "print"
  /\ pc' = "input"
  /\ call' = NoCall
  /\ result' = NoCall
  /\ llm_calls' = <<>>
  /\ UNCHANGED <<env, backend, drafting>>

Next ==
  \/ Construct
  \/ CallRetrieveExact
  \/ CallRetrieveSemantic
  \/ AnswerQuestion
  \/ PrintResult

Spec == Init /\ [][Next]_vars

\* =================================================================== claims
\* the call `op` has returned and its result is in `result`
Returned(op) == pc = "print" /\ call.op = op

ReturnedDual == Returned("answer_question") /\ call.mode = "dual"

\* the hits of a lookup outcome that answered (none if it was not made or raised)
HitIds(r) == IF r.called /\ ~r.raises THEN r.ids ELSE <<>>

HitDocs(r) == IF r.called /\ ~r.raises THEN r.documents ELSE <<>>

\* <<id, doc, distance>> triples of a vector lookup outcome that answered
HitTriples(r) ==
  IF r.called /\ ~r.raises
    THEN {<<r.ids[i], r.documents[i], r.distances[i]>> : i \in 1..Len(r.ids)}
    ELSE {}

ResultTriples(r) == {<<r.ids[i], r.docs[i], r.dists[i]>> : i \in 1..Len(r.ids)}

\* no semantic hit of the call passed the distance cutoff
NoSemanticPassed ==
  \A i \in 1..Len(call.loc.sem.dists) : call.loc.sem.dists[i] >= SEM_THRESHOLD

\* C1: in dual-retrieval question answering, when there is no exact hit and no
\* semantic hit below the distance cutoff, the answer is exactly the refusal
\* sentinel, the citation list is empty and no chat completion was made.
C1_EmptyContextRefuses ==
  (ReturnedDual /\ call.loc.exact.docs = <<>> /\ NoSemanticPassed)
    => /\ result.success
       /\ result.answer = REFUSAL
       /\ result.citations = <<>>
       /\ llm_calls = <<>>

\* C1 witness: a refusal where semantic hits exist but all sit at the cutoff
C1_Witness ==
  /\ ReturnedDual /\ call.loc.exact.docs = <<>> /\ NoSemanticPassed
  /\ call.loc.sem.docs # <<>>
  /\ result.answer = REFUSAL /\ llm_calls = <<>>

\* the text the i-th chat completion of the call handed back to its caller
ReturnedText(i) == ask_openai(llm_calls[i].out)

\* a and b are the same text up to letter case
SameIgnoringCase(a, b) ==
  /\ Len(a) = Len(b)
  /\ \A i \in 1..Len(a) : lower_char(a[i]) = lower_char(b[i])

\* the cascade after a context-bound completion, `refused` telling whether its
\* text counts as the refusal sentinel
CascadeFollows(refused) ==
  IF refused
    THEN /\ Len(llm_calls) = 2
         /\ llm_calls[2].system = "FALLBACK_PROMPT"
         /\ llm_calls[2].user = call.question
         /\ result.answer = ReturnedText(2)
    ELSE /\ Len(llm_calls) = 1
         /\ result.answer = ReturnedText(1)

\* C2 as stated: with a non-empty fused context, the fallback call is made
\* exactly when the context-bound call returned the refusal sentinel itself, and
\* any other returned text is the answer without a second call.
C2_Original ==
  (ReturnedDual /\ call.loc.combined_docs # <<>>)
    => /\ Len(llm_calls) >= 1
       /\ llm_calls[1].system = "SYSTEM_PROMPT"
       /\ CascadeFollows(ReturnedText(1) = REFUSAL)

\* C2 amended: with a non-empty fused context, exactly one additional call is
\* made under the fallback policy, and its result returned, when the text of the
\* context-bound call equals the refusal sentinel up to letter case (and
\* surrounding whitespace); for every other text no second call is made and the
\* text is the answer.
C2_FallbackOnRefusalIgnoringCase ==
  (ReturnedDual /\ call.loc.combined_docs # <<>>)
    => /\ Len(llm_calls) >= 1
       /\ llm_calls[1].system = "SYSTEM_PROMPT"
       /\ llm_calls[1].user = make_prompt(call.question, call.loc.combined_docs)
       /\ CascadeFollows(SameIgnoringCase(str_strip(ReturnedText(1)), REFUSAL))

\* C2 witness: the context-bound call answered the sentinel in capitals and the
\* fallback call supplied the answer
C2_Witness ==
  /\ ReturnedDual /\ call.loc.combined_docs # <<>>
  /\ Len(llm_calls) = 2
  /\ ReturnedText(1) = T_Upper
  /\ llm_calls[2].system = "FALLBACK_PROMPT"
  /\ result.answer = T_Answer

\* neither Q&A store is connected
NoStore == coll_eplc = "None" /\ coll_hhs = "None"

BothAnsweredSemantic ==
  /\ Returned("retrieve_semantic")
  /\ call.io.qryE.called /\ ~call.io.qryE.raises
  /\ call.io.qryH.called /\ ~call.io.qryH.raises

\* C4: when both stores answer (each ascending by distance, at most k long),
\* retrieve_semantic returns min(k, total) fragments, all taken from the two
\* lists without repetition, in ascending distance, and no fragment left out is
\* closer than a fragment returned: the global top-k of the merged lists.
C4_GlobalTopK ==
  BothAnsweredSemantic
    => LET union == HitTriples(call.io.qryE) \cup HitTriples(call.io.qryH)
           got == ResultTriples(result)
       IN /\ Len(result.ids) = Min(call.k, Cardinality(union))
          /\ Len(result.docs) = Len(result.ids)
          /\ Len(result.dists) = Len(result.ids)
          /\ Cardinality(got) = Len(result.ids)
          /\ got \subseteq union
          /\ IsAscending(result.dists)
          /\ \A x \in union \ got : \A y \in got : y[3] <= x[3]

\* C4 witness: k = 2, the EPLC store reports two fragments at 0.75, the HHS
\* store two at 0.10, and the result is the two HHS fragments
C4_Witness ==
  /\ BothAnsweredSemantic
  /\ call.k = 2
  /\ call.io.qryE.distances = <<75, 75>>
  /\ call.io.qryH.distances = <<10, 10>>
  /\ result.ids = <<<<"hhs", 1>>, <<"hhs", 2>>>>
  /\ result.dists = <<10, 10>>

\* both stores answered the exact lookup of a direct retrieve_exact call
BothAnsweredExact ==
  /\ Returned("retrieve_exact")
  /\ call.io.getE.called /\ ~call.io.getE.raises
  /\ call.io.getH.called /\ ~call.io.getH.raises

\* C5: retrieve_exact returns at most k fragments in total: the first k of the
\* EPLC matches followed by the HHS matches, with one score 0.0 per fragment.
C5_ExactConcatThenTruncate ==
  BothAnsweredExact
    => /\ Len(result.ids) <= call.k
       /\ result.ids = Take(call.io.getE.ids \o call.io.getH.ids, call.k)
       /\ result.docs = Take(call.io.getE.documents \o call.io.getH.documents, call.k)
       /\ Len(result.dists) = Len(result.ids)
       /\ \A i \in 1..Len(result.dists) : result.dists[i] = 0

\* C5 witness: k = 2, one EPLC match and two HHS matches: the second HHS match
\* is cut by the truncation across stores
C5_Witness ==
  /\ BothAnsweredExact
  /\ call.k = 2
  /\ Len(call.io.getE.ids) = 1
  /\ Len(call.io.getH.ids) = 2
  /\ result.ids = <<<<"eplc", 1>>, <<"hhs", 1>>>>
  /\ result.dists = <<0, 0>>

\* outcome r is a lookup that was made and raised
Failure(r) == r.called /\ r.raises

\* outcome r is a lookup that was made and answered
Answer(r) == r.called /\ ~r.raises

\* <<ids, documents, distances>> of a vector lookup outcome, cut to k
SemTop(r, k) ==
  [ids |-> Take(r.ids, k), docs |-> Take(r.documents, k),
   dists |-> Take(r.distances, k)]

\* the exact hits the dual path has when one store raised and the other answered
ExactOfSurvivor ==
  IF Failure(call.io.getE) THEN call.io.getH ELSE call.io.getE

\* C6: when the lookup of one Q&A store raises and the other store answers,
\* retrieve_exact and retrieve_semantic return the hits of the store that
\* answered, and a question whose exact lookup lost one store is still answered
\* from the hits of the other: they are cited and placed first in the prompt.
C6_OneStoreFailureDegrades ==
  /\ (Returned("retrieve_exact") /\ Failure(call.io.getE) /\ Answer(call.io.getH))
       => /\ result.ids = Take(call.io.getH.ids, call.k)
          /\ result.docs = Take(call.io.getH.documents, call.k)
  /\ (Returned("retrieve_exact") /\ Answer(call.io.getE) /\ Failure(call.io.getH))
       => /\ result.ids = Take(call.io.getE.ids, call.k)
          /\ result.docs = Take(call.io.getE.documents, call.k)
  /\ (Returned("retrieve_semantic") /\ Failure(call.io.qryE) /\ Answer(call.io.qryH))
       => result = SemTop(call.io.qryH, call.k)
  /\ (Returned("retrieve_semantic") /\ Answer(call.io.qryE) /\ Failure(call.io.qryH))
       => result = SemTop(call.io.qryE, call.k)
  /\ (/\ ReturnedDual
      /\ \/ Failure(call.io.getE) /\ Answer(call.io.getH)
         \/ Answer(call.io.getE) /\ Failure(call.io.getH)
      /\ Take(ExactOfSurvivor.ids, top_k) # <<>>)
       => /\ result.success
          /\ call.loc.exact.ids = Take(ExactOfSurvivor.ids, top_k)
          /\ Take(result.citations, Len(call.loc.exact.ids)) = call.loc.exact.ids
          /\ Len(llm_calls) >= 1
          /\ llm_calls[1].user = make_prompt(call.question, call.loc.combined_docs)
          /\ Take(call.loc.combined_docs, Len(call.loc.exact.ids))
               = Take(ExactOfSurvivor.documents, top_k)

\* C6 witness: the HHS exact lookup raised, the EPLC one returned a hit, and the
\* question was answered citing it
C6_Witness ==
  /\ ReturnedDual
  /\ Answer(call.io.getE) /\ Failure(call.io.getH)
  /\ call.io.getE.ids # <<>>
  /\ result.success
  /\ result.citations # <<>>
  /\ result.citations[1] = <<"eplc", 1>>
  /\ result.answer = T_Answer

\* C6 witness for semantic retrieval: the EPLC vector lookup raised and the
\* result is the HHS hits
C6_WitnessSemantic ==
  /\ Returned("retrieve_semantic")
  /\ Failure(call.io.qryE) /\ Answer(call.io.qryH)
  /\ result.ids = <<<<"hhs", 1>>, <<"hhs", 2>>>>

\* a Q&A store path whose connection raises at start-up
Broken(p) == p \in {"raises", "empty"}

\* C7 as stated: after start-up, a Q&A store that connected stays available
\* when the connection to the other store failed.
C7_OtherStoreSurvivesStartup ==
  (pc = "input" \/ pc = "print")
    => /\ (env.eplc = "ok" /\ Broken(env.hhs)) => coll_eplc = "conn"
       /\ (env.hhs = "ok" /\ Broken(env.eplc)) => coll_hhs = "conn"

\* the exact hits of the dual path, read off the lookups it made
ExactDocsOfIo == Take(HitDocs(call.io.getE) \o HitDocs(call.io.getH), top_k)

ExactIdsOfIo == Take(HitIds(call.io.getE) \o HitIds(call.io.getH), top_k)

\* the embedding step of the call failed: no encoder, or encode raised
EmbeddingFailed == sbert = "None" \/ Failure(call.io.enc)

\* C8: when the embedding step of a question fails, semantic retrieval yields
\* the empty result and no vector lookup is made, while the exact hits alone
\* form the fused context and the citations, and the question is answered from
\* them (refused only if there is no exact hit either).
C8_EmbeddingFailureKeepsExact ==
  (ReturnedDual /\ EmbeddingFailed)
    => /\ call.loc.sem = EmptyResult
       /\ ~call.io.qryE.called /\ ~call.io.qryH.called
       /\ call.loc.combined_docs = ExactDocsOfIo
       /\ call.loc.combined_ids = ExactIdsOfIo
       /\ result.success
       /\ IF ExactDocsOfIo = <<>>
            THEN result.answer = REFUSAL /\ llm_calls = <<>>
            ELSE /\ result.citations = ExactIdsOfIo
                 /\ Len(llm_calls) >= 1
                 /\ llm_calls[1].user = make_prompt(call.question, ExactDocsOfIo)

\* C8 witness: encode raised, the exact lookups found fragments in both stores,
\* and the answer cites them
C8_Witness ==
  /\ ReturnedDual /\ Failure(call.io.enc)
  /\ result.citations = <<<<"eplc", 1>>, <<"hhs", 1>>>>
  /\ Len(llm_calls) = 1
  /\ result.answer = T_Answer

\* C9: with k = 0 or with no store connected, retrieve_exact and
\* retrieve_semantic return the empty result (no ids, no docs, no scores).
C9_EmptyForZeroKOrNoStore ==
  ((Returned("retrieve_exact") \/ Returned("retrieve_semantic"))
     /\ (call.k = 0 \/ NoStore))
    => result = EmptyResult

\* C9 witness: retrieve_exact with k = 0 on a store that answers limit=0 with a
\* fragment
C9_Witness ==
  /\ Returned("retrieve_exact") /\ call.k = 0
  /\ Answer(call.io.getE) /\ call.io.getE.ids # <<>>
  /\ result = EmptyResult

\* C9 witness with no store connected and k > 0
C9_WitnessNoStore ==
  /\ Returned("retrieve_semantic") /\ NoStore /\ call.k > 0
  /\ sbert = "loaded" /\ Answer(call.io.enc)
  /\ result = EmptyResult

\* some chat completion of the call failed
SomeCompletionFailed == \E i \in 1..Len(llm_calls) : llm_calls[i].out.raises

\* C10 as stated: a failed chat completion during question answering makes the
\* result unsuccessful with the error reported, and the only successful result
\* without a model answer is the refusal on empty context.
C10_CompletionFailureSurfaced ==
  Returned("answer_question")
    => /\ SomeCompletionFailed => (~result.success /\ result.error # NoneText)
       /\ (result.success /\ llm_calls = <<>>)
            => (result.answer = REFUSAL /\ result.citations = <<>>)

\* ================================================================ drafting
\* ----------------------------------------------------------- prompt texts
\* pieces of the f-string user_prompt of a first draft
GP_Context == <<"\n", "C", "O", "N", "T", "E", "X", "T", ":", "\n">>

\* f"Concise, specific, {target_min}-{target_max} words." with the default word targets
DEFAULT_INSTRUCTIONS == <<"C", "o", "n", "c", "i", "s", "e", ",", " ", "s", "p", "e", "c", "i", "f", "i", "c", ",", " ", "1", "2", "0", "-", "1", "8", "0", " ", "w", "o", "r", "d", "s", ".">>

\* the text appended to a draft of low confidence
CHECKLIST == <<"\n", "\n", "A", "s", "s", "u", "m", "p", "t", "i", "o", "n", "s", " ", "&", " ", "N", "e", "x", "t", " ", "S", "t", "e", "p", "s", ":", "\n", "-", " ", "C", "o", "n", "f", "i", "r", "m", " ", "d", "a", "t", "a", " ", "c", "a", "t", "e", "g", "o", "r", "i", "e", "s", " ", "a", "n", "d", " ", "u", "s", "e", "r", " ", "g", "r", "o", "u", "p", "s", ".", "\n", "-", " ", "V", "a", "l", "i", "d", "a", "t", "e", " ", "e", "n", "v", "i", "r", "o", "n", "m", "e", "n", "t", "a", "l", " ", "d", "e", "p", "e", "n", "d", "e", "n", "c", "i", "e", "s", ".", "\n", "-", " ", "L", "i", "s", "t", " ", "t", "e", "c", "h", "n", "i", "c", "a", "l", " ", "o", "r", " ", "s", "e", "c", "u", "r", "i", "t", "y", " ", "r", "i", "s", "k", "s", ".", "\n", "-", " ", "I", "d", "e", "n", "t", "i", "f", "y", " ", "o", "w", "n", "e", "r", " ", "r", "e", "s", "p", "o", "n", "s", "i", "b", "i", "l", "i", "t", "i", "e", "s", ".", "\n">>

\* ------------------------------------------------- generate_document_section
\* the factor of min_sim in `best_sim < (self.min_sim * 0.75)`, in hundredths
LOW_SIM_FACTOR == 75

\* str.title(): a letter is upper case after a non-letter, lower case after a
\* letter
str_title(s) ==
  LET is_letter(c) == \E i \in 1..26 : Lower[i] = c \/ Upper[i] = c
      upper_char(c) == IF \E i \in 1..26 : Lower[i] = c
                         THEN Upper[CHOOSE i \in 1..26 : Lower[i] = c]
                         ELSE c
  IN [i \in 1..Len(s) |->
        IF i = 1 \/ ~is_letter(s[i - 1])
          THEN upper_char(s[i]) ELSE lower_char(s[i])]

\* f"{phase.title()} Phase | Template: {template} | Section: {section}\n{details}"
query_text(phase, template, section, details) ==
  str_title(phase) \o <<" ", "P", "h", "a", "s", "e", " ", "|", " ", "T", "e", "m", "p", "l", "a", "t", "e", ":", " ">> \o template \o <<" ", "|", " ", "S", "e", "c", "t", "i", "o", "n", ":", " ">> \o section
    \o P_Newline \o details

\* the f-string user_prompt of a first draft
draft_prompt(context, section, template, phase, details, instructions) ==
  GP_Context \o context \o <<"\n", "\n", "Q", "U", "E", "S", "T", "I", "O", "N", ":", "\n", "D", "r", "a", "f", "t", " ", "t", "h", "e", " ">> \o section \o <<" ", "s", "e", "c", "t", "i", "o", "n", " ", "f", "o", "r", " ", "t", "h", "e", " ">> \o template
    \o <<" ", "i", "n", " ", "t", "h", "e", " ">> \o str_title(phase) \o <<" ", "P", "h", "a", "s", "e", ".", "\n", "\n", "U", "s", "e", "r", " ", "d", "e", "t", "a", "i", "l", "s", ":", "\n">> \o details
    \o <<"\n", "\n", "I", "n", "s", "t", "r", "u", "c", "t", "i", "o", "n", "s", ":", "\n">> \o instructions \o P_Newline

\* max([dist_to_sim(d) for d in dists], default=0.0)
RECURSIVE best_sim(_)
best_sim(dists) ==
  IF dists = <<>> THEN 0
  ELSE IF Len(dists) = 1 THEN dist_to_sim(dists[1])
  ELSE LET rest == best_sim(Tail(dists))
       IN IF dist_to_sim(dists[1]) >= rest THEN dist_to_sim(dists[1]) ELSE rest

\* with_checklist with the comparison against min_sim itself
with_checklist_mut(draft, dists) ==
  IF best_sim(dists) < MIN_SIM THEN draft \o CHECKLIST ELSE draft

\* if best_sim < (min_sim * 0.75): draft += checklist
with_checklist(draft, dists) ==
  IF 100 * best_sim(dists) < MIN_SIM * LOW_SIM_FACTOR
    THEN draft \o CHECKLIST
    ELSE draft

\* (message.content or "").strip()
content_text(content) == IF content = NoneText THEN <<>> ELSE str_strip(content)

\* `instructions`, or the default when it is empty
instructions_or_default(instructions) ==
  IF instructions = <<>> THEN DEFAULT_INSTRUCTIONS ELSE instructions

\* the dicts generate_document_section returns
DraftRejected(error) == [success |-> FALSE, error |-> error]

DraftFailed(error) == [success |-> FALSE, error |-> error, draft |-> NoneText]

\* return value, retrieval and completion call of generate_document_section,
\* given what it finds at the phase store and the outcome of its completion
generate_document_section(phase, template, section, details, instructions, pio, chat) ==
  LET ph == str_lower(phase)
      none == [result |-> DraftFailed(E_Client), llm |-> <<>>, queries |-> <<>>]
  IN IF ph \notin PHASE_PATHS
       THEN [none EXCEPT !.result = DraftRejected(<<"I", "n", "v", "a", "l", "i", "d", " ", "p", "h", "a", "s", "e", ".", " ", "M", "u", "s", "t", " ", "b", "e", " ", "o", "n", "e", " ", "o", "f", ":", " ", "r", "e", "q", "u", "i", "r", "e", "m", "e", "n", "t", ",", " ", "d", "e", "s", "i", "g", "n", ",", " ", "i", "m", "p", "l", "e", "m", "e", "n", "t", "a", "t", "i", "o", "n", ",", " ", "d", "e", "v", "e", "l", "o", "p", "m", "e", "n", "t">>)]
     ELSE IF pio.db = "missing"
       THEN [none EXCEPT !.result = DraftRejected(
               E_NoFolderPre \o ph \o <<"'", " ", "n", "o", "t", " ", "f", "o", "u", "n", "d", " ", "a", "t", " ">> \o str_title(ph) \o <<"_", "d", "b">>)]
     ELSE IF pio.db = "raises"
       THEN none
     ELSE IF pio.db = "empty"
       THEN [none EXCEPT !.result = DraftRejected(
               <<"N", "o", " ", "c", "o", "l", "l", "e", "c", "t", "i", "o", "n", "s", " ", "f", "o", "u", "n", "d", " ", "i", "n", " ">> \o ph \o <<" ", "d", "a", "t", "a", "b", "a", "s", "e">>)]
     ELSE LET ins == instructions_or_default(instructions)
              qt == query_text(ph, template, section, details)
              q == query_database(pio.embed, pio.query)
              kept == filter_by_threshold(q.docs, q.dists)
              context == join_context(kept)
              c == LlmCall("GEN_SYSTEM",
                           draft_prompt(context, section, template, ph,
                                        details, ins), 20, chat)
              qs == <<[text |-> qt, dists |-> q.dists, context |-> context]>>
          IN IF chat.raises
               THEN [result |-> DraftFailed(chat.error), llm |-> <<c>>,
                     queries |-> qs]
               ELSE [result |->
                       [success |-> TRUE,
                        draft |-> with_checklist(content_text(chat.content),
                                                 q.dists),
                        error |-> NoneText],
                     llm |-> <<c>>, queries |-> qs]

\* words the prompts of main() react to
W_exit == <<"e", "x", "i", "t">>

IN_Details == <<"A", " ", "p", "o", "r", "t", "a", "l", ".">>

\* texts a drafting completion can carry as message.content
D_One == <<"D", "r", "a", "f", "t", " ", "o", "n", "e", ".">>

\* ------------------------------------------ Generation_final_v2: the session
\* what collection.query(n_results=k) can do for a drafting query; the
\* distances it reports are far above the keep threshold (10), just above
\* (73) and just below (74) the low-confidence line
DraftQueryOutcomes(k) ==
  {Raised} \cup
  { [called |-> TRUE, raises |-> FALSE,
     documents |-> [i \in 1..Len(ds) |-> PhaseDoc(i)],
     distances |-> [i \in 1..Len(ds) |-> PyFloat(ds[i])]]
    : ds \in { d \in UNION { [1..n -> {10, 73, 74}] : n \in 0..Min(k, MaxFrags) } :
               IsAscending(d) } }

\* what a chat completion can do: raise, or carry one of `contents`
CompletionOutcomes(contents) ==
  {[called |-> TRUE, raises |-> TRUE, error |-> E_Timeout]} \cup
  {[called |-> TRUE, raises |-> FALSE, content |-> c] : c \in contents}

DraftOutcomes == CompletionOutcomes({D_One, <<" ", "D", "r", "a", "f", "t", " ", "t", "w", "o", ".", "\n">>})

CheckOutcomes == CompletionOutcomes({<<"N", "o", " ", "m", "a", "j", "o", "r", " ", "m", "i", "s", "s", "i", "n", "g", " ", "e", "l", "e", "m", "e", "n", "t", "s", ".">>, <<"-", " ", "O", "w", "n", "e", "r">>})

\* the completion chat_generate(oa, chat_model, GEN_SYSTEM, user) makes
synthesis_call(user, out) == LlmCall("GEN_SYSTEM", user, 20, out)

\* the completion detect_missing_info makes, with its f-string prompt
detect_missing_info(template_text, user_input, out) ==
  LlmCall("CHECK_SYSTEM",
    <<"\n", "Y", "o", "u", " ", "a", "r", "e", " ", "a", "n", " ", "E", "P", "L", "C", " ", "c", "o", "m", "p", "l", "e", "t", "e", "n", "e", "s", "s", " ", "c", "h", "e", "c", "k", "e", "r", ".", "\n", "\n", "T", "E", "M", "P", "L", "A", "T", "E", " ", "C", "O", "N", "T", "E", "X", "T", " ", "(", "E", "P", "L", "C", " ", "g", "u", "i", "d", "a", "n", "c", "e", " ", "f", "r", "o", "m", " ", "v", "e", "c", "t", "o", "r", " ", "D", "B", ")", ":", "\n">> \o template_text \o <<"\n", "\n", "U", "S", "E", "R", " ", "I", "N", "P", "U", "T", ":", "\n">> \o user_input \o <<"\n", "\n", "T", "A", "S", "K", ":", "\n", "1", ".", " ", "I", "d", "e", "n", "t", "i", "f", "y", " ", "k", "e", "y", " ", "E", "P", "L", "C", "-", "r", "e", "q", "u", "i", "r", "e", "d", " ", "e", "l", "e", "m", "e", "n", "t", "s", " ", "i", "m", "p", "l", "i", "e", "d", " ", "b", "y", " ", "T", "E", "M", "P", "L", "A", "T", "E", " ", "C", "O", "N", "T", "E", "X", "T", ".", "\n", "2", ".", " ", "C", "h", "e", "c", "k", " ", "w", "h", "i", "c", "h", " ", "e", "l", "e", "m", "e", "n", "t", "s", " ", "a", "r", "e", " ", "m", "i", "s", "s", "i", "n", "g", " ", "f", "r", "o", "m", " ", "U", "S", "E", "R", " ", "I", "N", "P", "U", "T", ".", "\n", "3", ".", " ", "R", "e", "t", "u", "r", "n", " ", "a", " ", "b", "u", "l", "l", "e", "t", " ", "l", "i", "s", "t", " ", "o", "f", " ", "m", "i", "s", "s", "i", "n", "g", " ", "i", "t", "e", "m", "s", ".", "\n", "4", ".", " ", "I", "f", " ", "n", "o", "t", "h", "i", "n", "g", " ", "i", "s", " ", "m", "i", "s", "s", "i", "n", "g", ",", " ", "r", "e", "t", "u", "r", "n", " ", "e", "x", "a", "c", "t", "l", "y", ":", " ", "\"", "N", "o", " ", "m", "a", "j", "o", "r", " ", "m", "i", "s", "s", "i", "n", "g", " ", "e", "l", "e", "m", "e", "n", "t", "s", ".", "\"", "\n">>,
    0, out)

\* what one turn of main() did: the retriever queries and completions it made
Turn(op, queries, llm) == [op |-> op, queries |-> queries, llm |-> llm]

\* main() at its first prompt, no local assigned yet
CliFresh ==
  [pc |-> "phase", phase |-> NoneText, template |-> NoneText,
   section |-> NoneText, details |-> NoneText, instructions |-> NoneText,
   context |-> NoneText, draft |-> NoneText, missing |-> NoneText,
   turn |-> Turn("start", <<>>, <<>>)]

\* main() has returned ("done") or an exception left it ("crashed"): the
\* process is over and its locals are gone
CliEnded(how, turn) == [CliFresh EXCEPT !.pc = how, !.turn = turn]

\* the pass reaches retriever.query
cli_retrieves(in, db) ==
  /\ str_lower(str_strip(in.phase)) \in PHASE_PATHS /\ db = "ok"
  /\ str_lower(str_strip(in.template)) # W_exit
  /\ str_lower(str_strip(in.section)) # W_exit

\* what a follow-up text asks for
follow_kind(follow) ==
  LET low == str_lower(follow)
  IN IF str_strip(follow) = <<>> THEN "blank"
     ELSE IF low \in {<<"y", "e", "s">>, <<"y">>} THEN "accept"
     ELSE IF low \in {<<"b", "a", "c", "k">>, <<"b">>} THEN "back"
     ELSE IF low \in {W_exit, <<"q", "u", "i", "t">>, <<"q">>} THEN "exit"
     ELSE IF low \in {<<"r">>, <<"r", "e", "g", "e", "n", "e", "r", "a", "t", "e">>} THEN "regenerate"
     ELSE "refine"

\* the variables of the Q&A back end
qa == <<pc, env, sbert, coll_eplc, coll_hhs, top_k, call, result, llm_calls,
        runs>>

\* python Generation_final_v2.py, the API key present
InitCli ==
  /\ pc = "off"
  /\ env = NoCall
  /\ sbert = "unset"
  /\ coll_eplc = "unset"
  /\ coll_hhs = "unset"
  /\ top_k = 0
  /\ call = NoCall
  /\ result = NoCall
  /\ llm_calls = <<>>
  /\ cli = CliFresh
  /\ app = NoCall
  /\ fn = NoCall
  /\ runs = NoCall

\* one pass of the outer `while True` of main(): from "Which Phase?" to the
\* first "Are you satisfied?" prompt, a `continue`, a return or an exception;
\* `in` holds the texts typed at its prompts
CliStartSession ==
  /\ cli.pc = "phase"
  /\ \E in \in
      [phase : {PH_DesignArg, PH_implementation}, template : {<<"P", "l", "a", "n">>},
       section : {<<"S", "c", "o", "p", "e">>}, details : {IN_Details},
       instructions : {<<>>, <<"F", "o", "r", "m", "a", "l", ".">>}]
      \cup [phase : {<<"q", "a">>, W_exit}, template : {<<"P", "l", "a", "n">>},
            section : {<<"S", "c", "o", "p", "e">>}, details : {IN_Details}, instructions : {<<>>}]
      \cup [phase : {PH_DesignArg}, template : {<<"P", "l", "a", "n">>, W_exit},
            section : {<<"S", "c", "o", "p", "e">>, W_exit}, details : {IN_Details},
            instructions : {<<>>}],
        db \in PhaseDbStates :
       \E emb \in (IF cli_retrieves(in, db) THEN EmbedOutcomes ELSE {NotCalled}),
          synth \in (IF cli_retrieves(in, db) THEN DraftOutcomes ELSE {NotCalled}) :
         \E qry \in (IF cli_retrieves(in, db) /\ ~emb.raises
                       THEN DraftQueryOutcomes(MaxK) ELSE {NotCalled}),
            check \in (IF cli_retrieves(in, db) /\ ~synth.raises
                         THEN CheckOutcomes ELSE {NotCalled}) :
           LET phase == str_lower(str_strip(in.phase))
               again(op) == [cli EXCEPT !.phase = phase,
                                        !.turn = Turn(op, <<>>, <<>>)]
               template == str_strip(in.template)
               section == str_strip(in.section)
               instructions == instructions_or_default(in.instructions)
               q == query_database(emb, qry)
               context == join_context(filter_by_threshold(q.docs, q.dists))
               qs == <<[text |-> query_text(phase, template, section,
                                            in.details),
                        dists |-> q.dists, context |-> context]>>
               c1 == synthesis_call(
                       draft_prompt(context, section, template, phase,
                                    in.details, instructions), synth)
               c2 == detect_missing_info(context, in.details, check)
           IN cli' =
                IF phase = W_exit
                  THEN CliEnded("done", Turn("exit", <<>>, <<>>))
                ELSE IF phase \notin PHASE_PATHS THEN again("invalid_phase")
                ELSE IF db = "missing" THEN again("no_folder")
                ELSE IF db = "raises"
                  THEN CliEnded("crashed", Turn("connect", <<>>, <<>>))
                ELSE IF db = "empty" THEN again("no_collections")
                ELSE IF str_lower(template) = W_exit
                        \/ str_lower(section) = W_exit
                  THEN CliEnded("done", Turn("exit", <<>>, <<>>))
                ELSE IF synth.raises
                  THEN CliEnded("crashed", Turn("first", qs, <<c1>>))
                ELSE IF check.raises
                  THEN CliEnded("crashed", Turn("first", qs, <<c1, c2>>))
                ELSE [pc |-> "review", phase |-> phase,
                      template |-> template, section |-> section,
                      details |-> in.details, instructions |-> instructions,
                      context |-> context,
                      draft |-> with_checklist(content_text(synth.content),
                                               q.dists),
                      missing |-> str_strip(check.content),
                      turn |-> Turn("first", qs, <<c1, c2>>)]
  /\ UNCHANGED <<qa, app, fn>>

\* refine_prompt carrying the follow-up instructions without the current draft
refine_prompt_mut(context, draft, follow_text) ==
  GP_Context \o context \o follow_text

\* the f-string refine_prompt
refine_prompt(context, draft, follow_text) ==
  GP_Context \o context \o <<"\n", "\n", "C", "U", "R", "R", "E", "N", "T", " ", "D", "R", "A", "F", "T", ":", "\n">> \o draft \o <<"\n", "\n", "F", "O", "L", "L", "O", "W", "-", "U", "P", " ", "I", "N", "S", "T", "R", "U", "C", "T", "I", "O", "N", "S", ":", "\n">> \o follow_text
    \o <<"\n", "\n", "T", "A", "S", "K", ":", "\n", "R", "e", "g", "e", "n", "e", "r", "a", "t", "e", " ", "t", "h", "e", " ", "e", "n", "t", "i", "r", "e", " ", "s", "e", "c", "t", "i", "o", "n", " ", "w", "i", "t", "h", " ", "m", "e", "a", "n", "i", "n", "g", "f", "u", "l", " ", "u", "p", "d", "a", "t", "e", "s", " ", "t", "h", "a", "t", " ", "f", "u", "l", "l", "y", " ", "r", "e", "f", "l", "e", "c", "t", " ", "t", "h", "e", " ", "n", "e", "w", " ", "i", "n", "s", "t", "r", "u", "c", "t", "i", "o", "n", "s", ".", "\n">>

\* one pass of the inner `while True` of main(): one "Are you satisfied?"
\* prompt, the text typed at it and what it leads to; a regenerate turn sends
\* the f-string regenerate_prompt, any other text the refine_prompt
CliFollowUp ==
  /\ cli.pc = "review"
  /\ \E follow \in
       {<<>>, <<"y", "e", "s">>, <<"Y">>, <<"B", "a", "c", "k">>, <<"q">>, <<"r">>, <<"R", "e", "g", "e", "n", "e", "r", "a", "t", "e">>, <<"S", "h", "o", "r", "t", "e", "r", ".">>} :
       \E synth \in (IF follow_kind(follow) \in {"regenerate", "refine"}
                       THEN DraftOutcomes ELSE {NotCalled}) :
         \E check \in (IF synth.called /\ ~synth.raises
                         THEN CheckOutcomes ELSE {NotCalled}) :
           LET kind == follow_kind(follow)
               user ==
                 IF kind = "regenerate"
                   THEN GP_Context \o cli.context \o <<"\n", "\n", "T", "A", "S", "K", ":", "\n", "R", "e", "g", "e", "n", "e", "r", "a", "t", "e", " ", "t", "h", "e", " ", "e", "n", "t", "i", "r", "e", " ">> \o cli.section \o <<" ", "s", "e", "c", "t", "i", "o", "n", " ", "f", "o", "r", " ", "t", "h", "e", " ">> \o cli.template
    \o <<" ", "i", "n", " ", "t", "h", "e", " ">> \o str_title(cli.phase) \o <<" ", "P", "h", "a", "s", "e", ",", "\n", "u", "s", "i", "n", "g", " ", "t", "h", "e", " ", "s", "a", "m", "e", " ", "u", "s", "e", "r", " ", "d", "e", "t", "a", "i", "l", "s", ".", " ", "P", "r", "o", "d", "u", "c", "e", " ", "a", " ", "c", "l", "e", "a", "r", "l", "y", " ", "d", "i", "f", "f", "e", "r", "e", "n", "t", ",", " ", "i", "m", "p", "r", "o", "v", "e", "d", " ", "v", "e", "r", "s", "i", "o", "n", ".", "\n", "K", "e", "e", "p", " ", "1", "2", "0", "-", "1", "8", "0", " ", "w", "o", "r", "d", "s", ".", "\n">>
                   ELSE refine_prompt(cli.context, cli.draft, str_strip(follow))
               c1 == synthesis_call(user, synth)
               c2 == detect_missing_info(cli.context, cli.details, check)
           IN cli' =
                IF kind \in {"blank", "accept", "exit"}
                  THEN CliEnded("done", Turn(kind, <<>>, <<>>))
                ELSE IF kind = "back"
                  THEN [cli EXCEPT !.pc = "phase",
                                   !.turn = Turn("back", <<>>, <<>>)]
                ELSE IF synth.raises
                  THEN CliEnded("crashed", Turn(kind, <<>>, <<c1>>))
                ELSE IF check.raises
                  THEN CliEnded("crashed", Turn(kind, <<>>, <<c1, c2>>))
                ELSE [cli EXCEPT !.draft = content_text(synth.content),
                                 !.missing = str_strip(check.content),
                                 !.turn = Turn(kind, <<>>, <<c1, c2>>)]
  /\ UNCHANGED <<qa, app, fn>>

NextCli ==
  \/ CliStartSession
  \/ CliFollowUp

SpecCli == InitCli /\ [][NextCli]_vars

\* --------------------------------------------- ibm_app: create-document pages
\* names on the phase and document buttons (PHASE_DOC_MAP)
PH_ImplementationArg == <<"I", "m", "p", "l", "e", "m", "e", "n", "t", "a", "t", "i", "o", "n">>

DOC_Spec == <<"S", "p", "e", "c">>

DOC_Test == <<"T", "e", "s", "t">>

\* st.session_state.selected_section is None
NoSection == -1

\* a section of a document file, as load_document_sections keeps it
Section(number, title) == [section_number |-> number, section_title |-> title]

\* the phases found in the data folder
PHASES == {PH_DesignArg, PH_ImplementationArg}

\* PHASE_DOC_MAP[phase]["docs"]: the documents of a phase
doc_names(phase) ==
  IF phase = PH_DesignArg THEN {DOC_Spec, DOC_Test}
  ELSE IF phase = PH_ImplementationArg THEN {<<"R", "o", "l", "l", "o", "u", "t">>}
  ELSE {}

\* load_document_sections: the sorted sections of the document's file, [] for
\* an unknown phase or document; two documents number their sections from 1,
\* one has no section
load_document_sections(phase, document) ==
  IF document \notin doc_names(phase) THEN <<>>
  ELSE IF document = DOC_Spec
    THEN <<Section(<<"1">>, <<"I", "n", "t", "r", "o">>), Section(<<"2">>, <<"S", "c", "o", "p", "e">>)>>
  ELSE IF document = DOC_Test THEN <<Section(<<"1">>, <<"G", "o", "a", "l", "s">>)>>
  ELSE <<>>

\* a Python dict with no key
EmptyDict == [k \in {} |-> k]

\* d[key] = value
dict_set(d, key, value) ==
  [k \in DOMAIN d \cup {key} |-> IF k = key THEN value ELSE d[k]]

\* what the last click did: the call of generate_document_section it made (its
\* return value, retrieval and completion) and the message box it showed
Click(op, gen, message) == [op |-> op, gen |-> gen, message |-> message]

NoGen == [result |-> NoCall, llm |-> <<>>, queries |-> <<>>]

\* the page drawn after a click; show_create_doc_step3 up to the content
\* panel: the sections are reloaded when empty, the radio takes
\* selected_section (0 when None or out of range), and
\* `document_sections[selected_section]` raises when there is no section
draw(s) ==
  LET sections == IF s.document_sections = <<>>
                    THEN load_document_sections(s.selected_phase,
                                                s.selected_document)
                    ELSE s.document_sections
      idx == IF s.selected_section # NoSection
                /\ s.selected_section < Len(sections)
               THEN s.selected_section ELSE 0
  IN IF s.create_doc_step # 3 THEN [s EXCEPT !.panel = "none"]
     ELSE IF sections = <<>>
       THEN [s EXCEPT !.document_sections = sections, !.panel = "exception"]
     ELSE [s EXCEPT !.document_sections = sections,
                    !.selected_section = idx, !.panel = "ok"]

\* selected_section_data of the content panel
selected_section_data(s) == s.document_sections[s.selected_section + 1]

\* section_output: what the content panel shows as generated content
section_output(s) ==
  LET key == selected_section_data(s).section_number
  IN IF key \in DOMAIN s.section_generated_content
       THEN s.section_generated_content[key] ELSE <<>>

\* what both generate handlers do with a successful result
store_draft(s, op, gen) ==
  [s EXCEPT !.generated_draft = gen.result.draft,
            !.section_generated_content =
               dict_set(@, selected_section_data(s).section_number,
                        gen.result.draft),
            !.made_for =
               dict_set(@, selected_section_data(s).section_number,
                        <<s.selected_phase, s.selected_document>>),
            !.last = Click(op, gen, "success")]

\* the outcomes a call of generate_document_section can meet at the phase
\* store and the model, as <<pio, chat>>
GenOutcomes ==
  { <<[db |-> db, embed |-> NotCalled, query |-> NotCalled], NotCalled>>
      : db \in PhaseDbStates \ {"ok"} }
  \cup { <<[db |-> "ok", embed |-> Raised, query |-> NotCalled], chat>>
           : chat \in DraftOutcomes }
  \cup { <<[db |-> "ok", embed |-> [called |-> TRUE, raises |-> FALSE],
            query |-> qry], chat>>
           : qry \in DraftQueryOutcomes(MaxK), chat \in DraftOutcomes }

\* streamlit run ibm_app.py, the back end constructed; app is
\* st.session_state of the create-document pages, where made_for remembers, for
\* each key of section_generated_content, the phase and document its text was
\* generated for
InitApp ==
  /\ pc = "off"
  /\ env = NoCall
  /\ sbert = "unset"
  /\ coll_eplc = "unset"
  /\ coll_hhs = "unset"
  /\ top_k = 0
  /\ call = NoCall
  /\ result = NoCall
  /\ llm_calls = <<>>
  /\ cli = NoCall
  /\ app =
       [create_doc_step |-> 1, selected_phase |-> NoneText,
        selected_document |-> NoneText, document_sections |-> <<>>,
        selected_section |-> NoSection, user_details |-> <<>>,
        generated_draft |-> <<>>, section_generated_content |-> EmptyDict,
        made_for |-> EmptyDict, panel |-> "none",
        last |-> Click("open", NoGen, "none")]
  /\ fn = NoCall
  /\ runs = NoCall

\* the phase button handler
AppClickPhase ==
  /\ app.create_doc_step = 1
  /\ \E phase \in PHASES :
       app' = draw([app EXCEPT !.selected_phase = phase,
                               !.selected_document = NoneText,
                               !.document_sections = <<>>,
                               !.last = Click("phase", NoGen, "none")])
  /\ UNCHANGED <<qa, cli, fn>>

\* the document button handler
AppClickDocument ==
  /\ app.create_doc_step = 1
  /\ app.selected_phase # NoneText
  /\ \E document \in doc_names(app.selected_phase) :
       app' = draw([app EXCEPT
                      !.selected_document = document,
                      !.document_sections =
                         load_document_sections(app.selected_phase, document),
                      !.last = Click("document", NoGen, "none")])
  /\ UNCHANGED <<qa, cli, fn>>

\* the "Select Section" button handler; the button is disabled until a phase
\* and a document are selected
AppClickSelectSection ==
  /\ app.create_doc_step = 1
  /\ app.selected_phase # NoneText /\ app.selected_document # NoneText
  /\ app' = draw([app EXCEPT
                    !.document_sections =
                       IF app.document_sections = <<>>
                         THEN load_document_sections(app.selected_phase,
                                                     app.selected_document)
                         ELSE app.document_sections,
                    !.create_doc_step = 3,
                    !.last = Click("select_section", NoGen, "none")])
  /\ UNCHANGED <<qa, cli, fn>>

\* the back button handler of step 3
AppClickBack ==
  /\ app.create_doc_step = 3
  /\ app' = draw([app EXCEPT !.create_doc_step = 1,
                             !.selected_section = NoSection,
                             !.last = Click("back", NoGen, "none")])
  /\ UNCHANGED <<qa, cli, fn>>

\* the sidebar button "Create EPLC Document"
AppClickSidebar ==
  /\ app' = draw([app EXCEPT !.create_doc_step = 1,
                             !.last = Click("sidebar", NoGen, "none")])
  /\ UNCHANGED <<qa, cli, fn>>

\* the user picks entry i of the section radio
AppChooseSection ==
  /\ app.create_doc_step = 3 /\ app.panel = "ok"
  /\ \E i \in 0..(Len(app.document_sections) - 1) :
       app' = draw([app EXCEPT !.selected_section = i,
                               !.last = Click("section", NoGen, "none")])
  /\ UNCHANGED <<qa, cli, fn>>

\* the "Generate Section" button handler, the back end available: a warning
\* when the details are empty, else the call and its result stored or shown
AppClickGenerate ==
  /\ app.create_doc_step = 3 /\ app.panel = "ok"
  /\ \E user_details \in {<<>>, IN_Details} :
       \E instructions \in {<<>>},
          o \in (IF user_details = <<>> THEN {<<NotCalled, NotCalled>>}
                   ELSE GenOutcomes) :
         LET gen == generate_document_section(
                      app.selected_phase, app.selected_document,
                      selected_section_data(app).section_title, user_details,
                      instructions, o[1], o[2])
         IN app' = draw(
              IF user_details = <<>>
                THEN [app EXCEPT !.last = Click("generate", NoGen, "warning")]
              ELSE IF gen.result.success
                THEN [store_draft(app, "generate", gen)
                        EXCEPT !.user_details = user_details]
              ELSE [app EXCEPT !.last = Click("generate", gen, "error")])
  /\ UNCHANGED <<qa, cli, fn>>

\* the "Regenerate" button handler, the back end available; the button is
\* drawn only under generated content
AppClickRegenerate ==
  /\ app.create_doc_step = 3 /\ app.panel = "ok"
  /\ section_output(app) # <<>>
  /\ \E o \in GenOutcomes :
       LET gen == generate_document_section(
                    app.selected_phase, app.selected_document,
                    selected_section_data(app).section_title,
                    app.user_details, <<>>, o[1], o[2])
       IN app' = draw(
            IF gen.result.success
              THEN store_draft(app, "regenerate", gen)
              ELSE [app EXCEPT !.last = Click("regenerate", gen, "error")])
  /\ UNCHANGED <<qa, cli, fn>>

NextApp ==
  \/ AppClickPhase
  \/ AppClickDocument
  \/ AppClickSelectSection
  \/ AppClickBack
  \/ AppClickSidebar
  \/ AppChooseSection
  \/ AppClickGenerate
  \/ AppClickRegenerate

SpecApp == InitApp /\ [][NextApp]_vars

\* ======================================================== claims: drafting
\* in Generation_final_v2.main a regenerate or refine turn queries no store and
\* leaves every field of the session but draft and missing as it was
CliTurnKeepsContext ==
  [][(cli.pc = "review" /\ cli'.pc = "review")
       => /\ cli'.turn.op \in {"regenerate", "refine"}
          /\ cli'.turn.queries = <<>>
          /\ cli'.context = cli.context
          /\ cli'.phase = cli.phase /\ cli'.template = cli.template
          /\ cli'.section = cli.section /\ cli'.details = cli.details
          /\ cli'.instructions = cli.instructions]_vars

\* C11: across regenerate and refine operations on one drafting session
\* retrieval is never re-run and the context stays the one computed for the
\* first draft.  Stated for the Regenerate button of the web app: the turn
\* makes no retrieval.
C11_RegenerateKeepsContext ==
  app.last.op = "regenerate" => app.last.gen.queries = <<>>

\* a completion of the turn that led to the current state raised
CliCallRaised ==
  \E i \in 1..Len(cli.turn.llm) : cli.turn.llm[i].out.raises

\* the step is a turn of the session loop obeying INITIAL -> REVIEW ->
\* {accept, restart, regenerate, refine}
SessionStep ==
  /\ cli.pc \in {"phase", "review"}
  /\ cli'.turn.op = "first"
       => /\ cli.pc = "phase" /\ cli'.pc = "review"
          /\ Len(cli'.turn.queries) = 1
          /\ cli'.context = cli'.turn.queries[1].context
          /\ cli'.turn.llm[1].user =
               draft_prompt(cli'.context, cli'.section, cli'.template,
                            cli'.phase, cli'.details, cli'.instructions)
  /\ cli'.turn.op \in {"blank", "accept", "exit"}
       => /\ cli'.pc = "done"
          /\ cli'.turn.llm = <<>> /\ cli'.turn.queries = <<>>
  /\ cli'.turn.op = "back"
       => /\ cli.pc = "review" /\ cli'.pc = "phase"
          /\ cli'.turn.llm = <<>> /\ cli'.turn.queries = <<>>
  /\ cli'.turn.op \in {"regenerate", "refine"}
       => cli.pc = "review" /\ cli'.pc = "review"
  /\ cli'.pc = "review" => cli'.turn.op \in {"first", "regenerate", "refine"}

\* the session loop is that state machine as long as no completion raises
CliStateMachineUnlessRaised ==
  [][(cli'.pc = "crashed" /\ CliCallRaised') \/ cli'.turn.op = "connect"
       \/ SessionStep]_vars

\* C12: the drafting session loop is the state machine INITIAL -> REVIEW ->
\* {accept, restart, regenerate, refine}: the first synthesis leads to REVIEW,
\* accept is terminal with no call after it, restart returns to phase selection
\* and the next draft uses a freshly retrieved context, regenerate and refine
\* return to REVIEW.
C12_SessionStateMachine == [][SessionStep]_vars

\* in Generation_final_v2.main a regenerate or refine turn that is back at the
\* review prompt made one drafting completion and then one completeness
\* completion, the latter on the session's context and details
CliTurnSynthesisThenCheck ==
  (cli.pc = "review" /\ cli.turn.op \in {"regenerate", "refine"})
    => /\ Len(cli.turn.llm) = 2
       /\ cli.turn.llm[1].system = "GEN_SYSTEM"
       /\ cli.turn.llm[2] =
            detect_missing_info(cli.context, cli.details, cli.turn.llm[2].out)
       /\ cli.draft = content_text(cli.turn.llm[1].out.content)
       /\ cli.missing = str_strip(cli.turn.llm[2].out.content)

\* C13: every regenerate (and refine) performs exactly one synthesis call
\* followed by exactly one completeness-check call before the session is back
\* in review.  Stated for the Regenerate button of the web app.
C13_OneSynthesisOneCheck ==
  app.last.op = "regenerate"
    => /\ Len(app.last.gen.llm) = 2
       /\ app.last.gen.llm[1].system = "GEN_SYSTEM"
       /\ app.last.gen.llm[2].system = "CHECK_SYSTEM"

\* in the web app a generate or regenerate whose call failed shows an error box
\* and leaves st.session_state as it was
AppFailureKeepsSession ==
  [][(app'.last.op \in {"generate", "regenerate"}
        /\ app'.last.gen.result # NoCall /\ ~app'.last.gen.result.success)
       => /\ app'.last.message = "error"
          /\ app' = [app EXCEPT !.last = app'.last]]_vars

\* the fields of a session of Generation_final_v2.main
CliSession(s) ==
  <<s.phase, s.template, s.section, s.details, s.context, s.draft, s.missing>>

\* C14: when the synthesis call of a first draft, regenerate or refine fails,
\* the session state (phase, template, section, details, context, draft,
\* missing-items report) is preserved unchanged and the user can retry from the
\* same session.  Stated for regenerate and refine turns of
\* Generation_final_v2.main: the turn ends at the review prompt it started from
\* with the session as it was.
C14_SynthesisFailurePreserved ==
  [][(cli.pc = "review" /\ cli'.turn.llm # <<>> /\ cli'.turn.llm[1].out.raises)
       => /\ cli'.pc = "review"
          /\ CliSession(cli') = CliSession(cli)]_vars

\* the last click made a call of generate_document_section that succeeded
AppGenerated ==
  /\ app.last.op \in {"generate", "regenerate"}
  /\ app.last.gen.result # NoCall
  /\ app.last.gen.result.success

\* every distance is so large that 1 - distance is below 0.75 x min_sim (so is
\* the best similarity, 0.0 when there is no hit)
LowSimilarity(dists) ==
  \A i \in 1..Len(dists) :
    100 * (100 - dists[i].value) < LOW_SIM_FACTOR * MIN_SIM

\* C15: in the drafting path the fixed checklist is appended after the
\* generated draft exactly when the best similarity over the semantic hits is
\* below 0.75 x min_sim, the generated text staying an unchanged prefix; at or
\* above that line the draft is returned unchanged.
C15_ChecklistWhenLowSimilarity ==
  AppGenerated
    => LET generated == str_strip(app.last.gen.llm[1].out.content)
           dists == app.last.gen.queries[1].dists
       IN app.last.gen.result.draft =
            IF LowSimilarity(dists) THEN generated \o CHECKLIST ELSE generated

\* C15 witness: the best hit is just below the line and the checklist follows
\* the generated text
C15_Witness ==
  /\ AppGenerated
  /\ app.last.gen.queries[1].dists # <<>>
  /\ app.last.gen.queries[1].dists[1].value = 74
  /\ app.last.gen.result.draft = D_One \o CHECKLIST

\* the best hit is just above the line and the draft is the generated text
C15_WitnessUnchanged ==
  /\ AppGenerated
  /\ app.last.gen.queries[1].dists # <<>>
  /\ app.last.gen.queries[1].dists[1].value = 73
  /\ app.last.gen.result.draft = D_One

\* the first draft of Generation_final_v2.main carries the checklist under the
\* same condition
CliFirstDraftChecklist ==
  (cli.pc = "review" /\ cli.turn.op = "first")
    => cli.draft =
         IF LowSimilarity(cli.turn.queries[1].dists)
           THEN str_strip(cli.turn.llm[1].out.content) \o CHECKLIST
           ELSE str_strip(cli.turn.llm[1].out.content)

\* fragment texts handed to the helpers, the empty text among them
FnDocs == {PhaseDoc(1), PhaseDoc(2), <<>>}

\* all sequences over S of length at most n
SeqsUpTo(S, n) == UNION { [1..m -> S] : m \in 0..n }

\* a Python session importing the helpers
InitFn ==
  /\ pc = "off"
  /\ env = NoCall
  /\ sbert = "unset"
  /\ coll_eplc = "unset"
  /\ coll_hhs = "unset"
  /\ top_k = 0
  /\ call = NoCall
  /\ result = NoCall
  /\ llm_calls = <<>>
  /\ cli = NoCall
  /\ app = NoCall
  /\ fn = NoCall
  /\ runs = NoCall

\* dist_to_sim applied to distances on both sides of 1.0, None, a list, texts
\* that float() rejects and texts it converts
ApplyDistToSim ==
  /\ \E d \in {PyFloat(v) : v \in {0, 10, 55, 100, 130}}
               \cup {PyNone, [type |-> "list"]}
               \cup {PyStr(t) : t \in {<<"a", "b", "c">>, <<>>, <<".">>,
                                       <<"0", ".", "5">>, <<" ", "1", " ">>}} :
       fn' = [op |-> "dist_to_sim", d |-> d, out |-> dist_to_sim(d)]
  /\ UNCHANGED <<qa, cli, app>>

\* filter_by_threshold applied to fragments whose similarity is above, at,
\* just below and far below SIM_FILTER
ApplyFilterByThreshold ==
  /\ \E docs \in SeqsUpTo(FnDocs, MaxFrags),
        ds \in SeqsUpTo({10, 55, 56, 90}, MaxFrags) :
       LET dists == [i \in 1..Len(ds) |-> PyFloat(ds[i])]
       IN fn' = [op |-> "filter_by_threshold", docs |-> docs, dists |-> dists,
                 out |-> filter_by_threshold(docs, dists)]
  /\ UNCHANGED <<qa, cli, app>>

\* join_context applied to fragment lists
ApplyJoinContext ==
  /\ \E docs \in SeqsUpTo(FnDocs, MaxFrags) :
       fn' = [op |-> "join_context", docs |-> docs, out |-> join_context(docs)]
  /\ UNCHANGED <<qa, cli, app>>

NextFn ==
  \/ ApplyDistToSim
  \/ ApplyFilterByThreshold
  \/ ApplyJoinContext

SpecFn == InitFn /\ [][NextFn]_vars

\* ================================================= claims: drafting helpers
\* the j-th smallest element of a set of numbers
NthOf(K, j) == CHOOSE i \in K : Cardinality({x \in K : x < i}) = j - 1

\* the elements of xs at the positions K, in the order of xs
InOrderAt(xs, K) == [j \in 1..Cardinality(K) |-> xs[NthOf(K, j)]]

\* C16: the drafting threshold filter keeps exactly the fragments whose
\* similarity (1 - distance) is at least the keep-threshold, in their original
\* order, and drops all others; a fragment whose similarity equals the
\* threshold is kept.
C16_FilterKeepsAtOrAboveThreshold ==
  fn.op = "filter_by_threshold"
    => LET n == Min(Len(fn.docs), Len(fn.dists))
           keep == {i \in 1..n : 100 - fn.dists[i].value >= SIM_FILTER}
       IN fn.out = InOrderAt(fn.docs, keep)

\* C16 witness: of two fragments at distance 0.9 and 0.55 the first is dropped
\* and the second, whose similarity equals the threshold, is kept
C16_Witness ==
  /\ fn.op = "filter_by_threshold"
  /\ fn.docs = <<PhaseDoc(2), PhaseDoc(1)>>
  /\ fn.dists = <<PyFloat(90), PyFloat(55)>>
  /\ fn.out = <<PhaseDoc(1)>>

\* fragments at distance 0.55 and 0.1 are both kept, in their order
C16_WitnessKept ==
  /\ fn.op = "filter_by_threshold"
  /\ fn.docs = <<PhaseDoc(2), PhaseDoc(1)>>
  /\ fn.dists = <<PyFloat(55), PyFloat(10)>>
  /\ fn.out = <<PhaseDoc(2), PhaseDoc(1)>>

\* C17: the drafting context is never the empty string: for every list of kept
\* fragments, the empty list and lists of fragments with empty text included,
\* join_context returns the fragments joined by the separator or the sentinel
\* "(no strong matches)".
C17_ContextNeverEmpty ==
  fn.op = "join_context"
    => /\ fn.out # <<>>
       /\ fn.out = (IF fn.docs = <<>> THEN NO_STRONG_MATCHES
                    ELSE str_join(SEP, fn.docs))

\* join_context gives the sentinel for the empty list and the joined texts
\* otherwise
JoinContextShape ==
  fn.op = "join_context"
    => fn.out = (IF fn.docs = <<>> THEN NO_STRONG_MATCHES
                 ELSE str_join(SEP, fn.docs))

\* a text that float() cannot convert: it holds a character that is no digit,
\* point or whitespace, or it holds no digit
NotANumber(t) ==
  LET digit == {"0", "1", "2", "3", "4", "5", "6", "7", "8", "9"}
  IN \/ \E i \in 1..Len(t) : t[i] \notin Whitespace \cup {"."} \cup digit
     \/ \A i \in 1..Len(t) : t[i] \notin digit

\* C18: the distance-to-similarity conversion returns 1 - d for every numeric
\* distance d and returns 0.0, without raising, for every non-numeric input
\* (None, a list, a non-numeric string).
C18_SimilarityOfDistance ==
  fn.op = "dist_to_sim"
    => /\ fn.d.type = "float" => fn.out = 100 - fn.d.value
       /\ fn.d.type \in {"NoneType", "list"} => fn.out = 0
       /\ (fn.d.type = "str" /\ NotANumber(fn.d.text)) => fn.out = 0

\* C18 witness: None is converted to 0.0
C18_Witness == fn.op = "dist_to_sim" /\ fn.d = PyNone /\ fn.out = 0

\* a distance above 1.0 gives a negative similarity, a numeric text is
\* converted like the number it writes
C18_WitnessNumeric ==
  \/ fn.op = "dist_to_sim" /\ fn.d = PyFloat(130) /\ fn.out = -30
  \/ fn.op = "dist_to_sim" /\ fn.d = PyStr(<<"0", ".", "5">>) /\ fn.out = 50

\* ======================================================= claims: retrieval
\* ids, docs and scores of a retrieval result have the same length
SameLength(r) == Len(r.ids) = Len(r.docs) /\ Len(r.docs) = Len(r.dists)

\* every position of an exact-match result holds an id, the text of that id
\* and the score 0.0
ExactAligned(r) ==
  /\ SameLength(r)
  /\ \A i \in 1..Len(r.ids) : r.docs[i] = DocOf(r.ids[i]) /\ r.dists[i] = 0

\* every position of a semantic result holds the id, text and distance of one
\* hit of one store's response
SemanticAligned(r, rE, rH) ==
  /\ SameLength(r)
  /\ ResultTriples(r) \subseteq HitTriples(rE) \cup HitTriples(rH)
  /\ \A i \in 1..Len(r.ids) : r.docs[i] = DocOf(r.ids[i])

\* C19: every result of retrieve_exact and retrieve_semantic has ids, docs and
\* scores of the same length, position i of each describing the same fragment,
\* whatever the stores answered (hits, nothing, or an exception).
C19_ResultsAligned ==
  /\ Returned("retrieve_exact") => ExactAligned(result)
  /\ Returned("retrieve_semantic")
       => SemanticAligned(result, call.io.qryE, call.io.qryH)
  /\ ReturnedDual
       => /\ ExactAligned(call.loc.exact)
          /\ SemanticAligned(call.loc.sem, call.io.qryE, call.io.qryH)

\* C19 witness: a semantic result of two aligned hits from one store while the
\* other store raised
C19_Witness ==
  /\ Returned("retrieve_semantic")
  /\ call.io.qryE.called /\ call.io.qryE.raises
  /\ Len(result.ids) = 2
  /\ result.ids[1] # result.ids[2]

\* an exact-match result cut to k from the hits of both stores
C19_WitnessExact ==
  /\ Returned("retrieve_exact")
  /\ call.k = 2 /\ Len(result.ids) = 2
  /\ result.ids[1][1] = "eplc" /\ result.ids[2][1] = "hhs"

\* ================================================ claims: create-document
\* the content panel of step 3 shows generated content for the selected section
ShowsContent ==
  app.create_doc_step = 3 /\ app.panel = "ok" /\ section_output(app) # <<>>

\* C20: a drafting session is reset when the user changes phase, document or
\* section: generated content shown for the currently selected section was
\* produced for the currently selected phase and document, never carried over
\* from another phase or document.
C20_ShownContentMadeForSelection ==
  ShowsContent
    => app.made_for[selected_section_data(app).section_number]
         = <<app.selected_phase, app.selected_document>>

\* ========================================================= claims: start-up
\* the required credential is missing, or the location of a Q&A knowledge
\* store does not resolve to a usable store
ConfigurationError ==
  ~env.apiKey \/ env.eplc # "ok" \/ env.hhs # "ok"

\* a missing credential is fatal: construction raises and no call is served
MissingCredentialFatal ==
  ~env.apiKey => (pc \in {"start", "fatal"} /\ call = NoCall)

\* C21: a missing required credential or an unresolvable knowledge-store
\* location is fatal at start-up: backend construction fails in both cases and
\* no question or draft request is processed afterwards.
C21_ConfigurationErrorFatal ==
  ConfigurationError => (pc \in {"start", "fatal"} /\ call = NoCall)

\* ================================================= claims: the draft result
\* the last click called generate_document_section and it returned
AppGenReturned == "success" \in DOMAIN app.last.gen.result

\* every return carries 'success' and 'error'; a success carries the draft and
\* error None, a failure carries an error text
DraftReturnShape ==
  AppGenReturned
    => LET r == app.last.gen.result
       IN /\ {"success", "error"} \subseteq DOMAIN r
          /\ r.success => ("draft" \in DOMAIN r /\ r.error = NoneText)
          /\ ~r.success => r.error # NoneText

\* C22: every return of generate_document_section, on success and on every
\* failure path (invalid phase, missing store folder, no collections, raised
\* exception), is a dict carrying the keys 'success', 'draft' and 'error', with
\* error None on success and draft absent of content on failure; the function
\* never raises to its caller.
C22_DraftReturnKeys ==
  AppGenReturned
    => LET r == app.last.gen.result
       IN /\ DOMAIN r = {"success", "draft", "error"}
          /\ r.success => r.error = NoneText
          /\ ~r.success => r.draft = NoneText

\* ------------------------------- ibm_app: script runs sharing one back end
\* the script runs (browser sessions) that hold the object get_backend caches
Threads == {1, 2}

\* the app opened in two browser sessions, the back end constructed with the
\* credential, the encoder, the EPLC store and a positive TOP_K; no call is in
\* flight
InitConc ==
  /\ pc = "input"
  /\ env \in {e \in Envs : e.apiKey /\ e.sbertLoads /\ e.eplc = "ok"
                            /\ e.hhs = "missing" /\ e.topK \in {1, MaxK}}
  /\ sbert = "loaded"
  /\ coll_eplc = init_qa_databases(env).coll_eplc
  /\ coll_hhs = init_qa_databases(env).coll_hhs
  /\ top_k = env.topK
  /\ call = NoCall
  /\ result = NoCall
  /\ llm_calls = <<>>
  /\ cli = NoCall
  /\ app = NoCall
  /\ fn = NoCall
  /\ runs = [t \in Threads |-> [pc |-> "idle", overlapped |-> FALSE]]

\* `runs` after run t moves to `new`: a step taken while another run is
\* between its call and its return overlaps that run
RunStep(t, new) ==
  [u \in Threads |->
     IF u = t THEN new
     ELSE IF runs[u].pc \in {"retrieving", "completing"}
       THEN [runs[u] EXCEPT !.overlapped = TRUE]
     ELSE runs[u]]

\* a run calls backend.answer_question(question, use_dual_retrieval=True) or
\* backend.generate_document_section(...), once its last result is shown
ConcCall(t) ==
  /\ runs[t].pc \in {"idle", "returned"}
  /\ \E op \in {"answer_question", "generate_document_section"} :
       runs' = RunStep(t, [pc |-> "retrieving", op |-> op,
                           overlapped |-> FALSE])
  /\ UNCHANGED <<pc, env, backend, call, result, llm_calls, cli, app, fn>>

\* ConcRetrieve keeping the k of the call on the shared object
ConcRetrieve_mut(t) ==
  /\ runs[t].pc = "retrieving"
  /\ runs' = RunStep(t, [runs[t] EXCEPT !.pc = "completing"])
  /\ top_k' = 0
  /\ UNCHANGED <<pc, env, sbert, coll_eplc, coll_hhs, call, result, llm_calls,
                 cli, app, fn>>

\* the retrieval of the call in flight: the lookups of the Q&A stores with
\* the fields of the shared object as they are now (Steps 1-4 of
\* _answer_with_dual_retrieval), or the query of the phase store; a lookup
\* raises or returns as many fragments as it may
ConcRetrieve(t) ==
  /\ runs[t].pc = "retrieving"
  /\ IF runs[t].op = "answer_question"
       THEN \E getE \in GetChoices(coll_eplc, "eplc", top_k),
               getH \in GetChoices(coll_hhs, "hhs", top_k),
               qryE \in QueryChoices(sbert, [called |-> TRUE, raises |-> FALSE],
                                     coll_eplc, "eplc", top_k) :
              LET io == [getE |-> getE, getH |-> getH,
                         enc |-> [called |-> TRUE, raises |-> FALSE],
                         qryE |-> qryE,
                         qryH |-> IF coll_hhs = "None" THEN NotCalled
                                  ELSE Raised]
              IN /\ getH.called => getH.raises
                 /\ ~getE.raises => Len(getE.ids) = Min(top_k, MaxFrags)
                 /\ ~qryE.raises => Len(qryE.ids) = Min(top_k, MaxFrags)
                 /\ runs' = RunStep(t,
                      [runs[t] EXCEPT !.pc = "completing"]
                        @@ [io |-> io,
                            loc |-> DualLocals(sbert, coll_eplc, coll_hhs,
                                               top_k, io)])
       ELSE \E qry \in DraftQueryOutcomes(Min(top_k, 1)) :
              runs' = RunStep(t,
                [runs[t] EXCEPT !.pc = "completing"]
                  @@ [io |-> [db |-> "ok",
                              embed |-> [called |-> TRUE, raises |-> FALSE],
                              query |-> qry]])
  /\ UNCHANGED <<pc, env, backend, call, result, llm_calls, cli, app, fn>>

\* the completions of the call in flight and its return (Steps 5-7 of
\* _answer_with_dual_retrieval, or the draft and its checklist)
ConcReturn(t) ==
  /\ runs[t].pc = "completing"
  /\ IF runs[t].op = "answer_question"
       THEN \E llm1 \in (IF has_context(runs[t].loc)
                           THEN {o \in LlmOutcomes :
                                   o.raises \/ o.content \in {REFUSAL, T_Answer}}
                           ELSE {NotCalled}) :
              LET llm2 == IF has_context(runs[t].loc)
                             /\ is_refusal(ask_openai(llm1))
                            THEN [called |-> TRUE, raises |-> FALSE,
                                  content |-> T_Answer]
                            ELSE NotCalled
              IN runs' = RunStep(t,
                   [runs[t] EXCEPT !.pc = "returned"]
                     @@ [llm |-> <<llm1, llm2>>,
                         result |-> answer_with_dual_retrieval(
                                      Q1, runs[t].loc, llm1, llm2).result])
       ELSE \E chat \in DraftOutcomes :
              runs' = RunStep(t,
                [runs[t] EXCEPT !.pc = "returned"]
                  @@ [llm |-> <<chat>>,
                      result |-> generate_document_section(
                                   PH_DesignArg, DOC_Spec, <<"I", "n", "t", "r", "o">>,
                                   IN_Details, <<>>, runs[t].io, chat).result])
  /\ UNCHANGED <<pc, env, backend, call, result, llm_calls, cli, app, fn>>

NextConc ==
  \E t \in Threads :
    \/ ConcCall(t)
    \/ ConcRetrieve(t)
    \/ ConcReturn(t)

SpecConc == InitConc /\ [][NextConc]_vars

\* ===================================================== claims: concurrency
\* the return value of the call of run t made alone: computed in one piece
\* from the fields of the shared object and the responses the run received
ResultAlone(t) ==
  IF runs[t].op = "answer_question"
    THEN answer_with_dual_retrieval(
           Q1, DualLocals(sbert, coll_eplc, coll_hhs, top_k, runs[t].io),
           runs[t].llm[1], runs[t].llm[2]).result
    ELSE generate_document_section(
           PH_DesignArg, DOC_Spec, <<"I", "n", "t", "r", "o">>, IN_Details, <<>>,
           runs[t].io, runs[t].llm[1]).result

\* C23: concurrent queries share no mutable state: answer_question and
\* generate_document_section leave every field of the shared, cached backend
\* object unchanged, so the result of each of two interleaved calls equals the
\* result it would have when run alone against the same stores and model
\* responses.
C23_NoSharedMutableState ==
  /\ [][backend' = backend]_vars
  /\ [](\A t \in Threads :
          runs[t].pc = "returned" => runs[t].result = ResultAlone(t))

\* C23 witness: both runs have returned, each overlapped by steps of the
\* other, one from a question answered from context and one from a draft
C23_Witness ==
  /\ runs[1].pc = "returned" /\ runs[1].overlapped
  /\ runs[2].pc = "returned" /\ runs[2].overlapped
  /\ runs[1].op = "answer_question" /\ runs[1].result.citations # <<>>
  /\ runs[2].op = "generate_document_section" /\ runs[2].result.success

\* ======================================================== claims: fallback
\* the call made a completion under the general-knowledge policy
FallbackTaken ==
  \E i \in 1..Len(llm_calls) : llm_calls[i].system = "FALLBACK_PROMPT"

\* C24 as stated: the fallback to general knowledge is taken if and only if
\* the context-bound answer text exactly equals the refusal sentinel string; an
\* answer that differs from the sentinel in any character does not trigger the
\* fallback call.
C24_Original ==
  ReturnedDual
    => (FallbackTaken <=> (llm_calls # <<>> /\ ReturnedText(1) = REFUSAL))

\* C24 amended: the fallback to general knowledge is taken if and only if the
\* context-bound answer text, with surrounding whitespace removed, equals the
\* refusal sentinel up to letter case; an answer that differs from the sentinel
\* in any other way does not trigger the fallback call.
C24_FallbackIffSentinelUpToCase ==
  ReturnedDual
    => (FallbackTaken
          <=> (llm_calls # <<>>
               /\ SameIgnoringCase(str_strip(ReturnedText(1)), REFUSAL)))

\* C24 witness: an answer that lacks the sentinel's final character is
\* returned as it is, without a fallback call
C24_Witness ==
  /\ ReturnedDual /\ ~FallbackTaken
  /\ Len(llm_calls) = 1 /\ ReturnedText(1) = T_NoDot
  /\ result.answer = T_NoDot

\* the sentinel in capitals triggers the fallback call
C24_WitnessCapitals ==
  /\ ReturnedDual /\ FallbackTaken
  /\ ReturnedText(1) = T_Upper /\ ReturnedText(1) # REFUSAL

\* ================================================= claims: semantic cutoff
\* the part of the fused list xs that follows the exact matches
AfterExact(xs) == SubSeq(xs, Len(call.loc.exact.ids) + 1, Len(xs))

\* positions of the semantic hits of the call whose distance is below the cutoff
BelowCutoff ==
  {i \in 1..Len(call.loc.sem.dists) : call.loc.sem.dists[i] < SEM_THRESHOLD}

\* C25: in the Q&A path a semantic hit enters the fused context if and only if
\* its raw distance is strictly less than the maximum-distance cutoff (default
\* 0.75); a hit whose distance equals the cutoff is dropped, and surviving hits
\* keep their ascending-distance order.
C25_SemanticCutoffStrict ==
  ReturnedDual
    => /\ AfterExact(call.loc.combined_ids)
            = InOrderAt(call.loc.sem.ids, BelowCutoff)
       /\ AfterExact(call.loc.combined_docs)
            = InOrderAt(call.loc.sem.docs, BelowCutoff)
       /\ IsAscending(InOrderAt(call.loc.sem.dists, BelowCutoff))
       /\ \A i \in 1..Len(call.loc.sem.dists) :
            call.loc.sem.dists[i] = SEM_THRESHOLD
              => \A j \in 1..Len(AfterExact(call.loc.combined_ids)) :
                   AfterExact(call.loc.combined_ids)[j] # call.loc.sem.ids[i]

\* C25 witness: of two semantic hits the one below the cutoff is in the fused
\* context and the one at the cutoff is not
C25_Witness ==
  /\ ReturnedDual
  /\ Len(call.loc.sem.dists) = 2
  /\ call.loc.sem.dists[1] < SEM_THRESHOLD
  /\ call.loc.sem.dists[2] = SEM_THRESHOLD
  /\ AfterExact(call.loc.combined_ids) = <<call.loc.sem.ids[1]>>

\* two semantic hits from different stores pass the cutoff and keep their order
C25_WitnessOrder ==
  /\ ReturnedDual
  /\ Len(AfterExact(call.loc.combined_ids)) = 2
  /\ AfterExact(call.loc.combined_ids)[1][1] # AfterExact(call.loc.combined_ids)[2][1]

\* ========================================================== claims: refine
\* the text xs begins with the text p
StartsWith(xs, p) == Len(xs) >= Len(p) /\ SubSeq(xs, 1, Len(p)) = p

\* the draft of the session at the review prompt is the output of the
\* synthesis of the turn that led there (the first draft possibly followed by
\* the checklist)
DraftIsLastSynthesis ==
  LET out == content_text(cli.turn.llm[1].out.content)
  IN IF cli.turn.op = "first"
       THEN cli.draft \in {out, out \o CHECKLIST}
       ELSE cli.draft = out

\* C26: in any sequence of regenerate and refine operations, each refine
\* synthesizes from the most recent draft of the session (the output of the
\* immediately preceding synthesis, whether first draft, regenerate or refine)
\* together with the new follow-up instructions and the fixed context, never
\* from an older draft.  The follow-up text typed in the model is "Shorter.".
C26_RefineFromLatestDraft ==
  [][(cli.pc = "review" /\ cli'.turn.op = "refine")
       => /\ DraftIsLastSynthesis
          /\ cli'.turn.llm[1].system = "GEN_SYSTEM"
          /\ StartsWith(cli'.turn.llm[1].user,
               <<"\n", "C", "O", "N", "T", "E", "X", "T", ":", "\n">>
               \o cli.context
               \o <<"\n", "\n", "C", "U", "R", "R", "E", "N", "T", " ", "D", "R", "A", "F", "T", ":", "\n">>
               \o cli.draft
               \o <<"\n", "\n", "F", "O", "L", "L", "O", "W", "-", "U", "P", " ", "I", "N", "S", "T", "R", "U", "C", "T", "I", "O", "N", "S", ":", "\n">>
               \o <<"S", "h", "o", "r", "t", "e", "r", ".">>
               \o <<"\n", "\n", "T", "A", "S", "K", ":", "\n">>)]_vars

\* C26 witness: a refine turn whose prompt carried the draft "Draft one." of
\* the turn before it and which produced another draft
C26_Witness ==
  /\ cli.pc = "review" /\ cli.turn.op = "refine"
  /\ StartsWith(cli.turn.llm[1].user,
       <<"\n", "C", "O", "N", "T", "E", "X", "T", ":", "\n">>
       \o cli.context
       \o <<"\n", "\n", "C", "U", "R", "R", "E", "N", "T", " ", "D", "R", "A", "F", "T", ":", "\n">>
       \o D_One
       \o <<"\n", "\n", "F", "O", "L", "L", "O", "W", "-", "U", "P">>)
  /\ cli.draft # D_One

\* ======================================================= claims: citations
\* C27: in every successful dual-retrieval answer produced from non-empty
\* context, the citation list equals the exact-match ids followed by the ids of
\* the semantic hits that passed the cutoff, in the same order and number as
\* the fragments placed in the prompt (no deduplication, at most 2k entries);
\* this also holds when the answer came from the general-knowledge fallback
\* call.
C27_CitationsFollowPrompt ==
  (ReturnedDual /\ result.success /\ call.loc.combined_docs # <<>>)
    => /\ result.citations
            = call.loc.exact.ids \o InOrderAt(call.loc.sem.ids, BelowCutoff)
       /\ Len(result.citations) = Len(call.loc.combined_docs)
       /\ Len(result.citations) <= 2 * top_k
       /\ llm_calls[1].user
            = make_prompt(call.question,
                          [i \in 1..Len(result.citations)
                             |-> DocOf(result.citations[i])])

\* C27 witness: an answer of the fallback call cites the same fragment twice,
\* once as exact match and once as semantic hit
C27_Witness ==
  /\ ReturnedDual /\ result.success /\ FallbackTaken
  /\ Len(result.citations) = 2
  /\ result.citations[1] = result.citations[2]

\* an answer from context cites 2k fragments
C27_WitnessFull ==
  /\ ReturnedDual /\ result.success /\ ~FallbackTaken
  /\ top_k = MaxK /\ Len(result.citations) = 2 * top_k

\* ======================================================= claims: zero hits
\* the user prompt of a draft made on the sentinel context begins like this
NoMatchesPromptHead ==
  <<"\n", "C", "O", "N", "T", "E", "X", "T", ":", "\n">>
  \o <<"(", "n", "o", " ", "s", "t", "r", "o", "n", "g", " ", "m", "a", "t", "c", "h", "e", "s", ")">>
  \o <<"\n", "\n", "Q", "U", "E", "S", "T", "I", "O", "N", ":", "\n">>

\* the last click called generate_document_section and its retrieval came back
\* with no hit
AppZeroHits ==
  /\ app.last.gen.queries # <<>>
  /\ app.last.gen.queries[1].dists = <<>>

\* C28: the drafting path never refuses: when retrieval yields zero hits (empty
\* store response or a failed embedding/store query), generate_document_section
\* still makes exactly one synthesis call with the sentinel context "(no strong
\* matches)", takes best similarity as 0.0, and therefore appends the checklist
\* whenever 0.75 x min_sim is positive.
C28_ZeroHitsStillDrafts ==
  AppZeroHits
    => LET gen == app.last.gen
       IN /\ Len(gen.llm) = 1
          /\ gen.llm[1].system = "GEN_SYSTEM"
          /\ StartsWith(gen.llm[1].user, NoMatchesPromptHead)
          /\ gen.result.success = ~gen.llm[1].out.raises
          /\ (gen.result.success /\ 75 * MIN_SIM > 0)
               => gen.result.draft
                    = content_text(gen.llm[1].out.content) \o CHECKLIST

\* C28 witness: a Generate click whose retrieval had no hit stored a draft that
\* ends with the checklist
C28_Witness ==
  /\ AppZeroHits /\ app.last.op = "generate" /\ app.last.gen.result.success
  /\ app.generated_draft = D_One \o CHECKLIST
  /\ section_output(app) = D_One \o CHECKLIST

\* the first draft of Generation_final_v2.main on zero hits: one synthesis call
\* on the sentinel context, and the checklist after the draft
CliZeroHitsStillDrafts ==
  (cli.turn.op = "first" /\ cli.turn.queries # <<>>
     /\ cli.turn.queries[1].dists = <<>>)
    => /\ cli.turn.llm # <<>>
       /\ cli.turn.llm[1].system = "GEN_SYSTEM"
       /\ StartsWith(cli.turn.llm[1].user, NoMatchesPromptHead)
       /\ cli.pc = "review"
            => cli.draft = content_text(cli.turn.llm[1].out.content) \o CHECKLIST

\* ============================================== ibm_app.py: the Q&A page

\* the most entries of qa_history the model follows
MaxHistory == 3

\* the asking steps with the new entry put in front of the history
ask_mut(s, page_run, user_message, r) ==
  LET answer == IF ~s.backend
                  THEN <<"[x]", " ", "B", "a", "c", "k", "e", "n", "d", " ", "n", "o", "t", " ", "a", "v", "a", "i", "l", "a", "b", "l", "e", ".">>
                ELSE IF r.success THEN r.answer
                ELSE <<"[x]", " ", "E", "r", "r", "o", "r", ":", " ">> \o r.error
      citations == IF s.backend /\ r.success THEN r.citations ELSE <<>>
  IN [s EXCEPT !.qa_history = <<[question |-> user_message, answer |-> answer,
                                 citations |-> citations]>> \o @,
               !.current_question = user_message,
               !.current_answer = answer,
               !.last = page_run]

\* show_ask_question_page once user_message is there: the answer is the back
\* end's on success, the error text when it failed, the configuration notice
\* without a back end; the entry is appended and the current_* keys set.
\* "[x]" stands for the one character U+274C, and the notice is abbreviated
ask(s, page_run, user_message, r) ==
  LET answer == IF ~s.backend
                  THEN <<"[x]", " ", "B", "a", "c", "k", "e", "n", "d", " ", "n", "o", "t", " ", "a", "v", "a", "i", "l", "a", "b", "l", "e", ".">>
                ELSE IF r.success THEN r.answer
                ELSE <<"[x]", " ", "E", "r", "r", "o", "r", ":", " ">> \o r.error
      citations == IF s.backend /\ r.success THEN r.citations ELSE <<>>
  IN [s EXCEPT !.qa_history = Append(@, [question |-> user_message,
                                         answer |-> answer,
                                         citations |-> citations]),
               !.current_question = user_message,
               !.current_answer = answer,
               !.last = page_run]

\* streamlit run ibm_app.py: the session keys of the Q&A page as the script's
\* top sets them, get_backend having returned a back end or None
InitAsk ==
  /\ pc = "off"
  /\ env = NoCall
  /\ sbert = "unset"
  /\ coll_eplc = "unset"
  /\ coll_hhs = "unset"
  /\ top_k = 0
  /\ call = NoCall
  /\ result = NoCall
  /\ llm_calls = <<>>
  /\ cli = NoCall
  /\ \E has_backend \in BOOLEAN :
       app = [current_page |-> "learn_how", current_question |-> <<>>,
              current_answer |-> <<>>, qa_history |-> <<>>,
              backend |-> has_backend, last |-> "open"]
  /\ fn = NoCall
  /\ runs = NoCall

\* the sidebar buttons and the two buttons of the learn page set current_page
AskNavigate ==
  /\ \E page \in {"learn_how", "ask_question", "create_document"} :
       app' = [app EXCEPT !.current_page = page, !.last = "navigate"]
  /\ UNCHANGED <<qa, cli, fn>>

\* the first question typed into the chat input, drawn while the history is
\* empty
AskFirst ==
  /\ app.current_page = "ask_question"
  /\ app.qa_history = <<>>
  /\ \E first_question \in {IN_Details},
        r \in {Ok(T_Answer, <<>>), Ok(T_Answer, <<"e1", "h1">>), Failed(E_Timeout)} :
       app' = ask(app, "first", first_question, r)
  /\ UNCHANGED <<qa, cli, fn>>

\* a suggestion pill clicked, drawn while the history is empty and nothing was
\* typed: the run it triggers asks SUGGESTIONS[selected_suggestion]; the pills
\* are not drawn in that run, so the widget's key is gone after it
AskSuggestion ==
  /\ app.current_page = "ask_question"
  /\ app.qa_history = <<>>
  /\ LET SUGGESTIONS ==
           [selected_suggestion \in {"purpose", "design", "implementation"} |->
              CASE selected_suggestion = "purpose" ->
                     <<"W", "h", "a", "t", " ", "i", "s", " ", "t", "h", "e", " ", "p", "u", "r", "p", "o", "s", "e", " ", "o", "f", " ", "t", "h", "e", " ", "E", "P", "L", "C", " ", "F", "r", "a", "m", "e", "w", "o", "r", "k", "?">>
                [] selected_suggestion = "design" ->
                     <<"W", "h", "a", "t", " ", "a", "r", "e", " ", "t", "h", "e", " ", "k", "e", "y", " ", "a", "c", "t", "i", "v", "i", "t", "i", "e", "s", " ", "a", "n", "d", " ", "o", "u", "t", "p", "u", "t", "s", " ", "o", "f", " ", "t", "h", "e", " ", "E", "P", "L", "C", " ", "D", "e", "s", "i", "g", "n", " ", "P", "h", "a", "s", "e", "?">>
                [] selected_suggestion = "implementation" ->
                     <<"W", "h", "a", "t", " ", "h", "a", "p", "p", "e", "n", "s", " ", "i", "n", " ", "t", "h", "e", " ", "E", "P", "L", "C", " ", "I", "m", "p", "l", "e", "m", "e", "n", "t", "a", "t", "i", "o", "n", " ", "P", "h", "a", "s", "e", " ", "a", "n", "d", " ", "w", "h", "a", "t", " ", "d", "o", "c", "u", "m", "e", "n", "t", "s", " ", "a", "r", "e", " ", "r", "e", "q", "u", "i", "r", "e", "d", "?">>]
     IN \E selected_suggestion \in DOMAIN SUGGESTIONS,
           r \in {Ok(T_Answer, <<"e1">>), Failed(E_Timeout)} :
          app' = ask(app, "suggestion", SUGGESTIONS[selected_suggestion], r)
  /\ UNCHANGED <<qa, cli, fn>>

\* a follow-up typed into the bottom chat input, drawn under a history
AskFollowUp ==
  /\ app.current_page = "ask_question"
  /\ app.qa_history # <<>>
  /\ Len(app.qa_history) < MaxHistory
  /\ \E follow_up \in {IN_Details, T_Answer},
        r \in {Ok(T_Answer, <<"e1">>), Ok(T_NoDot, <<>>), Failed(E_Timeout)} :
       app' = ask(app, "follow_up", follow_up, r)
  /\ UNCHANGED <<qa, cli, fn>>

\* the Restart button, drawn only over a history
AskRestart ==
  /\ app.current_page = "ask_question"
  /\ app.qa_history # <<>>
  /\ app' = [app EXCEPT !.qa_history = <<>>, !.current_question = <<>>,
                        !.current_answer = <<>>, !.last = "restart"]
  /\ UNCHANGED <<qa, cli, fn>>

NextAsk ==
  \/ AskNavigate
  \/ AskFirst
  \/ AskSuggestion
  \/ AskFollowUp
  \/ AskRestart

SpecAsk == InitAsk /\ [][NextAsk]_vars

\* ========================================================= claims: Q&A page

\* here the history is one entry longer than before, the earlier entries are
\* where and what they were, and the new entry has exactly the three keys
GrownByOne ==
  /\ Len(app'.qa_history) = Len(app.qa_history) + 1
  /\ SubSeq(app'.qa_history, 1, Len(app.qa_history)) = app.qa_history
  /\ DOMAIN app'.qa_history[Len(app'.qa_history)] = {"question", "answer", "citations"}

\* C29: on the Q&A page every question asked (first question, suggestion or
\* follow-up) appends exactly one entry {question, answer, citations} at the
\* end of qa_history and leaves the earlier entries as they were; every other
\* step leaves the history alone, except Restart, the only step that empties
\* it; and current_question and current_answer are the last entry's question
\* and answer whenever there is one
C29_HistoryOnlyGrows ==
  /\ [][ /\ app'.last \in {"first", "suggestion", "follow_up"} => GrownByOne
         /\ app'.last = "navigate" => app'.qa_history = app.qa_history
         /\ (app.qa_history # <<>> /\ app'.qa_history = <<>>) => app'.last = "restart"
         /\ app'.last = "restart" => app'.qa_history = <<>> ]_vars
  /\ [](app.qa_history # <<>> =>
          LET newest == app.qa_history[Len(app.qa_history)]
          IN /\ app.current_question = newest.question
             /\ app.current_answer = newest.answer)

\* a follow-up answered with an error, recorded after a suggestion's answer
C29_Witness ==
  /\ Len(app.qa_history) = 2
  /\ app.last = "follow_up"
  /\ app.qa_history[1].citations = <<"e1">>
  /\ app.qa_history[2].citations = <<>>
  /\ app.current_answer = <<"[x]", " ", "E", "r", "r", "o", "r", ":", " ">> \o E_Timeout

\* a history emptied by Restart
C29_WitnessRestart ==
  /\ app.last = "restart"
  /\ app.qa_history = <<>>
  /\ app.current_question = <<>>

\* ============================================== claims: create-document flow

\* the step is 1 or 3, and step 3 has a phase and a document selected
StepThreeHasSelection ==
  /\ app.create_doc_step \in {1, 3}
  /\ app.create_doc_step = 3 =>
       (app.selected_phase # NoneText /\ app.selected_document # NoneText)

\* selected_section indexes document_sections (Python indices, from 0)
SectionIndexValid ==
  app.selected_section \in 0..(Len(app.document_sections) - 1)

\* the content panel drawn for a document that has sections
PanelOverSections == app.create_doc_step = 3 => (app.panel = "ok" <=> SectionIndexValid)

\* C30: in the create-document flow create_doc_step is always 1 or 3, step 3
\* is reached only with a phase and a document selected, and whenever the
\* content panel of step 3 is drawn selected_section is a valid index into
\* document_sections, also for a document without sections and after a return
\* through the sidebar to another document
C30_StepThreePanelIndexed ==
  /\ StepThreeHasSelection
  /\ app.create_doc_step = 3 => SectionIndexValid

====
